---- MODULE Spec2Model ----
(***************************************************************************)
(* A model of the realtime relay: the conversation reconstruction engine   *)
(* (realtime_client/conversation.py), the session controller's wiring of   *)
(* upstream events to it (realtime_client/client.py), the upstream         *)
(* connection (realtime_client/api.py), the event bus                      *)
(* (realtime_client/event_handler.py) and the gateway pairing (relay.py).  *)
(*                                                                         *)
(* Text is a sequence of one-character strings, audio is a sequence of     *)
(* byte values 0..255.  A dictionary key that is not set is represented by *)
(* the marker "absent" (enumerated fields) or Absent (text fields).        *)
(***************************************************************************)
EXTENDS Naturals, Integers, Sequences, FiniteSets, TLC

\* TLC keeps the fields of a record in the order in which their names first
\* occur in the module.  Naming them here fixes that order as the alphabetical
\* one, and every record below is written with its fields in that order.
FieldOrder ==
    [app |-> 0, args |-> 0, arguments |-> 0, audio |-> 0, audio_end_ms |-> 0,
     audio_start_ms |-> 0, call |-> 0, call_id |-> 0, client |-> 0, client_ws |-> 0,
     closed_by |-> 0, connects |-> 0, content |-> 0, content_index |-> 0, conv |-> 0,
     conversation |-> 0, definition |-> 0, delta |-> 0, done |-> 0, downstream |-> 0, earlier |-> 0, error |-> 0,
     event |-> 0, event_handlers |-> 0, event_id |-> 0, exc |-> 0,
     formatted |-> 0, given |-> 0, handler |-> 0, has_audio |-> 0, has_content |-> 0, has_end |-> 0,
     id |-> 0, ids |-> 0, inbox |-> 0, input_audio_buffer |-> 0,
     instructions |-> 0, invoked |-> 0, item |-> 0, item_id |-> 0, item_lookup |-> 0,
     items |-> 0, kind |-> 0, last |-> 0, model |-> 0, monitor |-> 0, n |-> 0, nEvents |-> 0,
     name |-> 0, next_event_handlers |-> 0, offered |-> 0, op |-> 0, opened |-> 0, output |-> 0,
     part |-> 0, pc |-> 0, present |-> 0, prev |-> 0, pump |-> 0,
     queued_input_audio |-> 0, queued_speech_items |-> 0,
     queued_transcript_items |-> 0, realtime |-> 0, received |-> 0,
     relay |-> 0, request |-> 0, response |-> 0, response_id |-> 0, response_lookup |-> 0,
     responses |-> 0, result |-> 0, role |-> 0, sent |-> 0, session |-> 0,
     session_config |-> 0, session_created |-> 0, socket |-> 0,
     source |-> 0, state |-> 0, status |-> 0, strayed |-> 0, tasks |-> 0, text |-> 0,
     time |-> 0, timeout |-> 0, tool |-> 0, tools |-> 0, topic |-> 0, transcript |-> 0,
     turn_detection |-> 0, type |-> 0, upstream |-> 0, value |-> 0,
     voice |-> 0, waits |-> 0, ws |-> 0]

VARIABLES
    conversation,   \* the RealtimeConversation object of the controller
    last,           \* the event handed to the last call and how the call ended
    nEvents,        \* number of events handed to the program so far
    client,         \* RealtimeClient: session_created, input_audio_buffer, event_handlers
    realtime,       \* RealtimeAPI: ws, client_ws, event_handlers
    upstream,       \* the upstream transport: its state and what the peer has sent
    downstream,     \* the downstream socket: its state and what was written to it
    relay,          \* the position of RealtimeRelay.connection_handler
    tasks,          \* what asyncio.create_task has scheduled and not yet run
    call,           \* the last call an application made, or task that ran, and how it ended
    app             \* the application: its callbacks the last dispatch ran, its pending waits

vars == <<conversation, last, nEvents, client, realtime, upstream, downstream, relay, tasks,
         call, app>>

-----------------------------------------------------------------------------
(* Bounds of the model *)

\* events handed to the engine (or sent by the upstream peer) in one behaviour
MaxEvents == 3

\* the messages the two peers of the gateway send in one run
MaxMessages == 2

\* the calls an application makes on a controller, and the events the upstream
\* peer sends to it, in one behaviour
MaxCalls == 4

\* RealtimeConversation.default_frequency
default_frequency == 24000

-----------------------------------------------------------------------------
(* Values *)

Absent == <<"#absent">>
NoneBytes == <<-1>>

ItemIds == {"a1", "a2"}
AnsweredIds == {"a1"}

Min(a, b) == IF a < b THEN a ELSE b
Max(a, b) == IF a < b THEN b ELSE a

\* bytes[start:end] of Python, for 0 <= start and 0 <= end
Slice(bytes, start, end) ==
    IF start >= Min(end, Len(bytes)) THEN <<>>
    ELSE SubSeq(bytes, start + 1, Min(end, Len(bytes)))

\* int((ms * default_frequency) / 1000) for a non-negative ms
MsToIndex(ms) == (ms * default_frequency) \div 1000

Put(f, k, v) == [x \in (DOMAIN f) \cup {k} |-> IF x = k THEN v ELSE f[x]]
\* del that forgets to remove the key
Drop_keeps(f, k) == f

Drop(f, k) == [x \in (DOMAIN f) \ {k} |-> f[x]]
EmptyMap == [x \in {} |-> 0]

\* the value of a base64 character
Sextet(ch) ==
    CASE ch = "A" -> 0  [] ch = "B" -> 1  [] ch = "D" -> 3  [] ch = "G" -> 6
      [] ch = "I" -> 8  [] ch = "Q" -> 16 [] ch = "U" -> 20

\* the three bytes of four base64 characters
Quad(s, i) ==
    LET a == Sextet(s[i])     b == Sextet(s[i + 1])
        c == Sextet(s[i + 2]) d == Sextet(s[i + 3])
    IN  << (a * 4 + b \div 16) % 256,
           ((b % 16) * 16 + c \div 4) % 256,
           ((c % 4) * 64 + d) % 256 >>

RECURSIVE DecodeQuads(_, _)
DecodeQuads(s, i) ==
    IF i + 3 > Len(s) THEN <<>> ELSE Quad(s, i) \o DecodeQuads(s, i + 4)

\* RealtimeUtils.base64_to_bytes on unpadded base64 text: base64.b64decode raises
\* binascii.Error ("Incorrect padding") unless the characters come in fours
base64_ok(s) == Len(s) % 4 = 0
base64_to_bytes(s) == DecodeQuads(s, 1)

\* the base64 character of a value, among the characters Sextet knows
Base64Char(v) == CHOOSE ch \in {"A", "B", "D", "G", "I", "Q", "U"} : Sextet(ch) = v

\* the four base64 characters of three bytes
Triple(bytes, i) ==
    << Base64Char(bytes[i] \div 4),
       Base64Char((bytes[i] % 4) * 16 + bytes[i + 1] \div 16),
       Base64Char((bytes[i + 1] % 16) * 4 + bytes[i + 2] \div 64),
       Base64Char(bytes[i + 2] % 64) >>

RECURSIVE EncodeTriples(_, _)
EncodeTriples(bytes, i) ==
    IF i + 2 > Len(bytes) THEN <<>> ELSE Triple(bytes, i) \o EncodeTriples(bytes, i + 3)

\* RealtimeUtils.bytes_to_base64, for bytes that come in threes (no padding)
bytes_to_base64(bytes) == EncodeTriples(bytes, 1)

-----------------------------------------------------------------------------
(* Items, content parts and events *)

NoTool == [arguments |-> Absent,
           call_id |-> "absent",
           name |-> "absent",
           present |-> FALSE,
           type |-> "absent"]

EmptyFormatted == [audio |-> <<>>,
                   output |-> Absent,
                   text |-> <<>>,
                   tool |-> NoTool,
                   transcript |-> <<>>]

\* {} appended by the padding loops
EmptyPart == [audio |-> Absent, text |-> Absent, transcript |-> Absent, type |-> "absent"]

Part(type, text, audio, transcript) ==
    [audio |-> audio, text |-> text, transcript |-> transcript, type |-> type]

\* an item as an event carries it: has_content tells whether the "content" key is set
EventItem(id, type, role, status, has_content, content, name, call_id, arguments, output) ==
    [arguments |-> arguments,
     call_id |-> call_id,
     content |-> content,
     formatted |-> EmptyFormatted,
     has_content |-> has_content,
     id |-> id,
     name |-> name,
     output |-> output,
     role |-> role,
     status |-> status,
     type |-> type]

UserMessage(id) ==
    EventItem(id, "message", "user", "completed", TRUE,
              << Part("input_text", <<"h">>, Absent, Absent) >>,
              "absent", "absent", Absent, Absent)

AssistantMessage(id) ==
    EventItem(id, "message", "assistant", "in_progress", TRUE, <<>>,
              "absent", "absent", Absent, Absent)

FunctionCall(id) ==
    EventItem(id, "function_call", "absent", "in_progress", FALSE, <<>>,
              "f", "c1", <<>>, Absent)

FunctionCallOutput(id) ==
    EventItem(id, "function_call_output", "absent", "absent", FALSE, <<>>,
              "absent", "c1", Absent, <<"o">>)

CreatedItems(id) ==
    {UserMessage(id), AssistantMessage(id), FunctionCall(id), FunctionCallOutput(id)}

-----------------------------------------------------------------------------
(* RealtimeConversation *)

\* RealtimeConversation.clear
ClearedConversation ==
    [item_lookup |-> EmptyMap,
     items |-> <<>>,
     queued_input_audio |-> NoneBytes,
     queued_speech_items |-> EmptyMap,
     queued_transcript_items |-> EmptyMap,
     response_lookup |-> EmptyMap,
     responses |-> <<>>]

\* RealtimeConversation.queue_input_audio
queue_input_audio(c, input_audio) == [c EXCEPT !.queued_input_audio = input_audio]

\* RealtimeConversation.get_item: the stored item, for an id that is indexed
get_item(c, id) == c.item_lookup[id]
HasItem(c, id) == id \in DOMAIN c.item_lookup

\* RealtimeConversation.get_items: the ordered list
get_items(c) == [i \in 1..Len(c.items) |-> c.item_lookup[c.items[i]]]

\* truthiness of a bytes-or-None value
Truthy(bytes) == bytes # NoneBytes /\ bytes # <<>>

\* what a processor hands back: the engine afterwards, the exception it raised
\* ("none" when it returned), and the (item, delta) pair it returned
NoItem == [id |-> "none"]
NoDelta == [kind |-> "none"]
Result(c, exc, item, delta) == [conv |-> c, delta |-> delta, exc |-> exc, item |-> item]

Placeholder(item_id) ==
    [arguments |-> Absent,
     call_id |-> "absent",
     content |-> <<>>,
     formatted |-> EmptyFormatted,
     has_content |-> TRUE,
     id |-> item_id,
     name |-> "absent",
     output |-> Absent,
     role |-> "absent",
     status |-> "in_progress",
     type |-> "absent"]

\* a lookup that synthesizes the placeholder over an item that is stored
_ensure_item_exists_resets(c, item_id) ==
    [c EXCEPT !.item_lookup = Put(@, item_id, Placeholder(item_id)),
              !.items = IF item_id \in DOMAIN c.item_lookup THEN @ ELSE Append(@, item_id)]

_ensure_item_exists(c, item_id) ==
    IF item_id \in DOMAIN c.item_lookup THEN c
    ELSE [c EXCEPT !.item_lookup = Put(@, item_id, Placeholder(item_id)),
                   !.items = Append(@, item_id)]

\* storing without the membership test of line 78
StoreNewItem_always(c, new_item) ==
    [c EXCEPT !.item_lookup = Put(@, new_item.id, new_item),
              !.items = Append(@, new_item.id)]

\* the item list keeps the new item only under an id that is not indexed yet
StoreNewItem(c, new_item) ==
    IF new_item.id \in DOMAIN c.item_lookup THEN c
    ELSE [c EXCEPT !.item_lookup = Put(@, new_item.id, new_item),
                   !.items = Append(@, new_item.id)]

\* the object stored by StoreNewItem is new_item itself: what the processor
\* assigns to new_item afterwards shows in the store, what it assigns to a
\* new_item that was not stored is lost
WriteBack(c, stored, new_item) ==
    IF stored THEN [c EXCEPT !.item_lookup[new_item.id] = new_item] ELSE c

RECURSIVE TextOfContent(_)
TextOfContent(content) ==
    IF content = <<>> THEN <<>>
    ELSE (IF Head(content).type \in {"text", "input_text"} THEN Head(content).text ELSE <<>>)
         \o TextOfContent(Tail(content))

\* lines 102-120: the status and formatted fields of each kind of item
KindDefaults(c, n) ==
    IF n.type = "message" THEN
        IF n.role = "user" THEN
            IF Truthy(c.queued_input_audio)
            THEN [conv |-> [c EXCEPT !.queued_input_audio = NoneBytes],
                  item |-> [n EXCEPT !.status = "completed",
                                     !.formatted.audio = c.queued_input_audio]]
            ELSE [conv |-> c, item |-> [n EXCEPT !.status = "completed"]]
        ELSE [conv |-> c, item |-> [n EXCEPT !.status = "in_progress"]]
    ELSE IF n.type = "function_call" THEN
        [conv |-> c,
         item |-> [n EXCEPT !.status = "in_progress",
                            !.formatted.tool = [arguments |-> <<>>,
                                                call_id |-> n.call_id,
                                                name |-> n.name,
                                                present |-> TRUE,
                                                type |-> "function"]]]
    ELSE IF n.type = "function_call_output" THEN
        [conv |-> c,
         item |-> [n EXCEPT !.status = "completed", !.formatted.output = n.output]]
    ELSE [conv |-> c, item |-> n]

conversation_item_created(c, event) ==
    LET item == event.item
        stored == item.id \notin DOMAIN c.item_lookup
        c0 == StoreNewItem(c, item)
        n1 == [item EXCEPT !.formatted = EmptyFormatted]
        queued == item.id \in DOMAIN c0.queued_speech_items
    IN  IF queued /\ ~c0.queued_speech_items[item.id].has_audio
        THEN \* self.queued_speech_items[id]["audio"] is not set: KeyError
             Result(WriteBack(c0, stored, n1), "KeyError", NoItem, NoDelta)
        ELSE
        LET n2 == IF queued
                  THEN [n1 EXCEPT !.formatted.audio = c0.queued_speech_items[item.id].audio]
                  ELSE n1
            c2 == IF queued
                  THEN [c0 EXCEPT !.queued_speech_items = Drop(@, item.id)]
                  ELSE c0
            n3 == IF n2.has_content
                  THEN [n2 EXCEPT !.formatted.text = @ \o TextOfContent(n2.content)]
                  ELSE n2
            transcribed == item.id \in DOMAIN c2.queued_transcript_items
            n4 == IF transcribed
                  THEN [n3 EXCEPT !.formatted.transcript =
                                      c2.queued_transcript_items[item.id].transcript]
                  ELSE n3
            c4 == IF transcribed
                  THEN [c2 EXCEPT !.queued_transcript_items = Drop(@, item.id)]
                  ELSE c2
            k == KindDefaults(c4, n4)
        IN  Result(WriteBack(k.conv, stored, k.item), "none", k.item, NoDelta)

conversation_item_truncated(c, event) ==
    LET c1 == _ensure_item_exists(c, event.item_id)
        end_index == MsToIndex(event.audio_end_ms)
        item == [c1.item_lookup[event.item_id] EXCEPT
                    !.formatted.transcript = <<>>,
                    !.formatted.audio = Slice(@, 0, end_index)]
    IN  Result([c1 EXCEPT !.item_lookup[event.item_id] = item], "none", item, NoDelta)

\* a deletion that removes the item from the index and leaves the list alone
conversation_item_deleted_index_only(c, event) ==
    IF event.item_id \notin DOMAIN c.item_lookup
    THEN Result(c, "none", NoItem, NoDelta)
    ELSE Result([c EXCEPT !.item_lookup = Drop(@, event.item_id)],
                "none", c.item_lookup[event.item_id], NoDelta)

conversation_item_deleted(c, event) ==
    IF event.item_id \notin DOMAIN c.item_lookup
    THEN Result(c, "none", NoItem, NoDelta)
    ELSE Result([c EXCEPT !.item_lookup = Drop(@, event.item_id),
                          !.items = SelectSeq(@, LAMBDA i : i # event.item_id)],
                "none", c.item_lookup[event.item_id], NoDelta)

\* a padding loop that runs once more than it should
PadContent_extra(content, content_index) ==
    IF Len(content) > content_index + 1 THEN content
    ELSE content \o [i \in 1..(content_index + 2 - Len(content)) |-> EmptyPart]

\* while len(item["content"]) <= content_index: item["content"].append({})
PadContent(content, content_index) ==
    IF Len(content) > content_index THEN content
    ELSE content \o [i \in 1..(content_index + 1 - Len(content)) |-> EmptyPart]

conversation_item_input_audio_transcription_completed(c, event) ==
    LET c1 == _ensure_item_exists(c, event.item_id)
        old == c1.item_lookup[event.item_id]
        formatted_transcript == IF event.transcript = <<>> THEN <<" ">> ELSE event.transcript
    IN  IF ~old.has_content THEN Result(c1, "KeyError", NoItem, NoDelta)
        ELSE
        LET item == [old EXCEPT
                        !.content = [PadContent(@, event.content_index) EXCEPT
                                        ![event.content_index + 1].transcript = event.transcript],
                        !.formatted.transcript = formatted_transcript]
        IN  Result([c1 EXCEPT !.item_lookup[event.item_id] = item], "none", item,
                   [kind |-> "transcript", value |-> event.transcript])

input_audio_buffer_speech_started(c, event) ==
    Result([c EXCEPT !.queued_speech_items =
                Put(@, event.item_id,
                    [audio |-> <<>>,
                     audio_end_ms |-> 0,
                     audio_start_ms |-> event.audio_start_ms,
                     has_audio |-> FALSE,
                     has_end |-> FALSE])],
           "none", NoItem, NoDelta)

input_audio_buffer_speech_stopped(c, event, input_audio_buffer) ==
    LET q0 == IF event.item_id \in DOMAIN c.queued_speech_items
              THEN c.queued_speech_items[event.item_id]
              ELSE [audio |-> <<>>,
                    audio_end_ms |-> 0,
                    audio_start_ms |-> event.audio_end_ms,
                    has_audio |-> FALSE,
                    has_end |-> FALSE]
        q1 == [q0 EXCEPT !.has_end = TRUE, !.audio_end_ms = event.audio_end_ms]
        start_index == MsToIndex(q1.audio_start_ms)
        end_index == MsToIndex(q1.audio_end_ms)
        speech == IF Truthy(input_audio_buffer)
                  THEN [q1 EXCEPT !.has_audio = TRUE,
                                  !.audio = Slice(input_audio_buffer, start_index, end_index)]
                  ELSE q1
    IN  Result([c EXCEPT !.queued_speech_items = Put(@, event.item_id, speech)],
               "none", NoItem, NoDelta)

response_created(c, event) ==
    LET response == event.response
    IN  IF response.id \in DOMAIN c.response_lookup
        THEN Result(c, "none", NoItem, NoDelta)
        ELSE Result([c EXCEPT !.response_lookup = Put(@, response.id, response),
                              !.responses = Append(@, response.id)],
                    "none", NoItem, NoDelta)

response_output_item_added(c, event) ==
    IF event.response_id \notin DOMAIN c.response_lookup
    THEN Result(c, "none", NoItem, NoDelta)
    ELSE Result([c EXCEPT !.response_lookup[event.response_id].output =
                              Append(@, event.item.id)],
                "none", NoItem, NoDelta)

\* found_item.update(item): the keys the event's item carries replace the stored ones
UpdateItem(found, item) ==
    [arguments |-> IF item.arguments = Absent THEN found.arguments ELSE item.arguments,
     call_id |-> IF item.call_id = "absent" THEN found.call_id ELSE item.call_id,
     content |-> IF item.has_content THEN item.content ELSE found.content,
     formatted |-> found.formatted,
     has_content |-> found.has_content \/ item.has_content,
     id |-> item.id,
     name |-> IF item.name = "absent" THEN found.name ELSE item.name,
     output |-> IF item.output = Absent THEN found.output ELSE item.output,
     role |-> IF item.role = "absent" THEN found.role ELSE item.role,
     status |-> IF item.status = "absent" THEN found.status ELSE item.status,
     type |-> IF item.type = "absent" THEN found.type ELSE item.type]

response_output_item_done(c, event) ==
    LET c1 == _ensure_item_exists(c, event.item.id)
        merged == UpdateItem(c1.item_lookup[event.item.id], event.item)
    IN  IF event.item.status = "absent"
        THEN \* found_item["status"] = item["status"]: KeyError after the update
             Result([c1 EXCEPT !.item_lookup[event.item.id] = merged],
                    "KeyError", NoItem, NoDelta)
        ELSE Result([c1 EXCEPT !.item_lookup[event.item.id] = merged],
                    "none", merged, NoDelta)

response_content_part_added(c, event) ==
    LET c1 == _ensure_item_exists(c, event.item_id)
        old == c1.item_lookup[event.item_id]
    IN  IF ~old.has_content THEN Result(c1, "KeyError", NoItem, NoDelta)
        ELSE LET item == [old EXCEPT !.content = Append(@, event.part)]
             IN  Result([c1 EXCEPT !.item_lookup[event.item_id] = item],
                        "none", item, NoDelta)

\* if field not in part: part[field] = ""; part[field] += delta
AppendTo(value, delta) == (IF value = Absent THEN <<>> ELSE value) \o delta

response_audio_transcript_delta(c, event) ==
    LET c1 == _ensure_item_exists(c, event.item_id)
        old == c1.item_lookup[event.item_id]
    IN  IF ~old.has_content THEN Result(c1, "KeyError", NoItem, NoDelta)
        ELSE
        LET item == [old EXCEPT
                        !.content = [PadContent(@, event.content_index) EXCEPT
                                        ![event.content_index + 1].transcript =
                                            AppendTo(@, event.delta)],
                        !.formatted.transcript = @ \o event.delta]
        IN  Result([c1 EXCEPT !.item_lookup[event.item_id] = item], "none", item,
                   [kind |-> "transcript", value |-> event.delta])

response_audio_delta(c, event) ==
    LET c1 == _ensure_item_exists(c, event.item_id)
        old == c1.item_lookup[event.item_id]
    IN  IF ~old.has_content THEN Result(c1, "KeyError", NoItem, NoDelta)
        ELSE
        LET raw == [old EXCEPT
                        !.content = [PadContent(@, event.content_index) EXCEPT
                                        ![event.content_index + 1].audio =
                                            AppendTo(@, event.delta)]]
        IN  IF ~base64_ok(event.delta)
            THEN \* base64_to_bytes raises after the content part was written
                 Result([c1 EXCEPT !.item_lookup[event.item_id] = raw],
                        "binascii.Error", NoItem, NoDelta)
            ELSE
            LET append_values == base64_to_bytes(event.delta)
                item == [raw EXCEPT !.formatted.audio = @ \o append_values]
            IN  Result([c1 EXCEPT !.item_lookup[event.item_id] = item], "none", item,
                       [kind |-> "audio", value |-> append_values])

\* a text delta that puts the fragment in front of the formatted text
response_text_delta_prepends(c, event) ==
    LET c1 == _ensure_item_exists(c, event.item_id)
        old == c1.item_lookup[event.item_id]
    IN  IF ~old.has_content THEN Result(c1, "KeyError", NoItem, NoDelta)
        ELSE
        LET item == [old EXCEPT
                        !.content = [PadContent(@, event.content_index) EXCEPT
                                        ![event.content_index + 1].text =
                                            AppendTo(@, event.delta)],
                        !.formatted.text = event.delta \o @]
        IN  Result([c1 EXCEPT !.item_lookup[event.item_id] = item], "none", item,
                   [kind |-> "text", value |-> event.delta])

response_text_delta(c, event) ==
    LET c1 == _ensure_item_exists(c, event.item_id)
        old == c1.item_lookup[event.item_id]
    IN  IF ~old.has_content THEN Result(c1, "KeyError", NoItem, NoDelta)
        ELSE
        LET item == [old EXCEPT
                        !.content = [PadContent(@, event.content_index) EXCEPT
                                        ![event.content_index + 1].text =
                                            AppendTo(@, event.delta)],
                        !.formatted.text = @ \o event.delta]
        IN  Result([c1 EXCEPT !.item_lookup[event.item_id] = item], "none", item,
                   [kind |-> "text", value |-> event.delta])

response_function_call_arguments_delta(c, event) ==
    LET c1 == _ensure_item_exists(c, event.item_id)
        old == c1.item_lookup[event.item_id]
        tool == IF old.formatted.tool.present THEN old.formatted.tool
                ELSE [NoTool EXCEPT !.present = TRUE, !.arguments = <<>>]
        item == [old EXCEPT
                    !.arguments = AppendTo(@, event.delta),
                    !.formatted.tool = [tool EXCEPT !.arguments = @ \o event.delta]]
    IN  Result([c1 EXCEPT !.item_lookup[event.item_id] = item], "none", item,
               [kind |-> "arguments", value |-> event.delta])

\* RealtimeConversation.event_processors: the types that have a processor
event_processors ==
    {"conversation.item.created", "conversation.item.truncated",
     "conversation.item.deleted",
     "conversation.item.input_audio_transcription.completed",
     "input_audio_buffer.speech_started", "input_audio_buffer.speech_stopped",
     "response.created", "response.output_item.added", "response.output_item.done",
     "response.content_part.added", "response.audio_transcript.delta",
     "response.audio.delta", "response.text.delta",
     "response.function_call_arguments.delta"}

\* event_processor(self, event, *args): every processor takes the event alone,
\* but speech_stopped, which takes the event and the input audio buffer
RunProcessor(c, event, args) ==
    LET t == event.type
    IN  IF t = "input_audio_buffer.speech_stopped" THEN
            IF Len(args) # 1 THEN Result(c, "TypeError", NoItem, NoDelta)
            ELSE input_audio_buffer_speech_stopped(c, event, args[1])
        ELSE IF Len(args) # 0 THEN Result(c, "TypeError", NoItem, NoDelta)
        ELSE CASE t = "conversation.item.created" -> conversation_item_created(c, event)
               [] t = "conversation.item.truncated" -> conversation_item_truncated(c, event)
               [] t = "conversation.item.deleted" -> conversation_item_deleted(c, event)
               [] t = "conversation.item.input_audio_transcription.completed" ->
                      conversation_item_input_audio_transcription_completed(c, event)
               [] t = "input_audio_buffer.speech_started" ->
                      input_audio_buffer_speech_started(c, event)
               [] t = "response.created" -> response_created(c, event)
               [] t = "response.output_item.added" -> response_output_item_added(c, event)
               [] t = "response.output_item.done" -> response_output_item_done(c, event)
               [] t = "response.content_part.added" -> response_content_part_added(c, event)
               [] t = "response.audio_transcript.delta" ->
                      response_audio_transcript_delta(c, event)
               [] t = "response.audio.delta" -> response_audio_delta(c, event)
               [] t = "response.text.delta" -> response_text_delta(c, event)
               [] t = "response.function_call_arguments.delta" ->
                      response_function_call_arguments_delta(c, event)

\* processing that does not ask for the event id
process_event_unchecked(c, event, args) ==
    IF event.type \notin event_processors THEN Result(c, "ValueError", NoItem, NoDelta)
    ELSE RunProcessor(c, event, args)

process_event(c, event, args) ==
    IF event.event_id = "absent" THEN Result(c, "ValueError", NoItem, NoDelta)
    ELSE IF event.type = "absent" THEN Result(c, "ValueError", NoItem, NoDelta)
    ELSE IF event.type \notin event_processors
         THEN Result(c, "ValueError", NoItem, NoDelta)
    ELSE RunProcessor(c, event, args)

-----------------------------------------------------------------------------
(* The events of the wire protocol the model draws its inputs from *)

\* size of the raw input-audio snapshot handed over with speech_stopped
SnapshotLen == 50

\* a buffer whose bytes tell their position
Ramp(n) == [i \in 1..n |-> i % 256]

ContentIndexes == {0, 1}
TextFragments == {<<"x">>, <<"y">>}
\* the base64 of bytes 1 2 3, the base64 of bytes 4 5 6, and three characters
\* that are no base64 text
ValidAudio == {<<"A", "Q", "I", "D">>, <<"B", "A", "U", "G">>}
AudioFragments == ValidAudio \cup {<<"A", "A", "A">>}
Transcripts == {<<"t">>}
StartMarks == {1}
EndMarks == {2}
TruncateMarks == {1}
Snapshots == {<<>>, Ramp(SnapshotLen)}
ResponseIds == {"r1"}

\* the items a response.output_item.done event carries
DoneItems(id) ==
    {EventItem(id, "message", "assistant", "completed", TRUE,
               << Part("audio", Absent, Absent, <<"t">>) >>,
               "absent", "absent", Absent, Absent),
     EventItem(id, "message", "assistant", "incomplete", FALSE, <<>>,
               "absent", "absent", Absent, Absent),
     EventItem(id, "function_call", "absent", "completed", FALSE, <<>>,
               "f", "c1", <<"{", "}">>, Absent)}

\* events that break the protocol: one without an event id, one without a
\* type, one of a type that has no processor
MalformedEvents ==
    {[audio_start_ms |-> 1, event_id |-> "absent", item_id |-> "a1",
      type |-> "input_audio_buffer.speech_started"],
     [event_id |-> "evt", type |-> "absent"],
     [event_id |-> "evt", type |-> "session.created"]}

ItemEvent(type, item) == [event_id |-> "evt", item |-> item, type |-> type]
IdEvent(type, item_id) == [event_id |-> "evt", item_id |-> item_id, type |-> type]
StartEvent(item_id, ms) ==
    [audio_start_ms |-> ms, event_id |-> "evt", item_id |-> item_id,
     type |-> "input_audio_buffer.speech_started"]
EndEvent(type, item_id, ms) ==
    [audio_end_ms |-> ms, event_id |-> "evt", item_id |-> item_id, type |-> type]
DeltaEvent(type, item_id, content_index, delta) ==
    [content_index |-> content_index, delta |-> delta, event_id |-> "evt",
     item_id |-> item_id, type |-> type]
ArgumentsEvent(item_id, delta) ==
    [delta |-> delta, event_id |-> "evt", item_id |-> item_id,
     type |-> "response.function_call_arguments.delta"]
TranscriptEvent(item_id, content_index, transcript) ==
    [content_index |-> content_index, event_id |-> "evt", item_id |-> item_id,
     transcript |-> transcript,
     type |-> "conversation.item.input_audio_transcription.completed"]
ResponseEvent(id) ==
    [event_id |-> "evt",
     response |-> [id |-> id, output |-> <<>>, status |-> "in_progress"],
     type |-> "response.created"]
OutputItemEvent(response_id, item) ==
    [event_id |-> "evt", item |-> item, response_id |-> response_id,
     type |-> "response.output_item.added"]
PartEvent(item_id, part) ==
    [event_id |-> "evt", item_id |-> item_id, part |-> part,
     type |-> "response.content_part.added"]

-----------------------------------------------------------------------------
(* RealtimeEventHandler: the topics of a bus and the callbacks they hold.
   A callback is named after the function or the lambda of the source. *)

\* clear_event_handlers that leaves the subscriptions in place
clear_event_handlers_keeps(bus) == bus

\* RealtimeEventHandler.__init__ and clear_event_handlers
clear_event_handlers(bus) ==
    [bus EXCEPT !.event_handlers = EmptyMap, !.next_event_handlers = EmptyMap]

\* RealtimeEventHandler.on
on(bus, event_name, callback) ==
    [bus EXCEPT !.event_handlers =
        Put(@, event_name,
            (IF event_name \in DOMAIN @ THEN @[event_name] ELSE <<>>) \o <<callback>>)]

\* the coroutines of wait_for_next the model follows
Waiters == {1, 2}

\* a wait_for_next that was not called: its future, the event the future was
\* resolved with, its position, what it returned, its timeout and its topic
NoEventYet == [item |-> "none"]
NoWait ==
    [done |-> FALSE, event |-> NoEventYet, pc |-> "idle", result |-> NoEventYet,
     timeout |-> FALSE, topic |-> "none"]

\* the tasks of the application that call RealtimeAPI.connect
Callers == {1, 2, 3}

\* an application that has made no call. earlier holds the transports that
\* connects before the last one opened, oldest first: the state of each, its
\* pump, its monitor, and whether its monitor has pinged a later transport
NoApp == [connects |-> [c \in Callers |-> "idle"], earlier |-> <<>>, invoked |-> <<>>,
          opened |-> 0, waits |-> [w \in Waiters |-> NoWait]]

\* RealtimeEventHandler.on_next
on_next(bus, event_name, callback) ==
    [bus EXCEPT !.next_event_handlers =
        Put(@, event_name,
            (IF event_name \in DOMAIN @ THEN @[event_name] ELSE <<>>) \o <<callback>>)]

\* list.remove(callback): the list without the first occurrence of the callback
RECURSIVE Removed(_, _)
Removed(callbacks, callback) ==
    IF callbacks = <<>> THEN <<>>
    ELSE IF Head(callbacks) = callback THEN Tail(callbacks)
    ELSE <<Head(callbacks)>> \o Removed(Tail(callbacks), callback)

\* self.event_handlers.get(event_name, []).copy()
DurableHandlers(bus, event_name) ==
    IF event_name \in DOMAIN bus.event_handlers
    THEN bus.event_handlers[event_name] ELSE <<>>

\* what self.next_event_handlers.pop(event_name, []) returns
NextHandlers(bus, event_name) ==
    IF event_name \in DOMAIN bus.next_event_handlers
    THEN bus.next_event_handlers[event_name] ELSE <<>>

\* the callback has a subscription to the topic, durable or for one dispatch
Subscribed(bus, event_name, callback) ==
    \/ \E i \in DOMAIN DurableHandlers(bus, event_name) :
           DurableHandlers(bus, event_name)[i] = callback
    \/ \E i \in DOMAIN NextHandlers(bus, event_name) :
           NextHandlers(bus, event_name)[i] = callback

-----------------------------------------------------------------------------
(* The machine: every object of one pairing. The operators below take the
   machine before a call and give the machine after it; exc is the exception
   the call raised, "none" when it returned. *)

Machine ==
    [app |-> app,
     call |-> call,
     client |-> client,
     conversation |-> conversation,
     downstream |-> downstream,
     exc |-> "none",
     last |-> last,
     nEvents |-> nEvents,
     realtime |-> realtime,
     relay |-> relay,
     tasks |-> tasks,
     upstream |-> upstream]

Commit(m) ==
    /\ app' = m.app
    /\ call' = m.call
    /\ client' = m.client
    /\ conversation' = m.conversation
    /\ downstream' = m.downstream
    /\ last' = m.last
    /\ nEvents' = m.nEvents
    /\ realtime' = m.realtime
    /\ relay' = m.relay
    /\ tasks' = m.tasks
    /\ upstream' = m.upstream

\* the value is computed once and handed to F
Bind(value, F(_)) == CHOOSE result \in {F(x) : x \in {value}} : TRUE

\* the statement after a call: it runs unless the call raised
Then(m, F(_)) == Bind(m, LAMBDA x : IF x.exc # "none" THEN x ELSE F(x))

\* no except clause around the handling of one message: the exception leaves
\* the loop of the pump, whose finally clause disconnects
Uncaught(m) ==
    [m EXCEPT !.exc = "none",
              !.realtime.pump = IF m.exc = "none" THEN @ ELSE "ended",
              !.realtime.ws = IF m.exc = "none" THEN @ ELSE "none"]

\* except Exception: the exception is logged and goes no further
Caught(m) == [m EXCEPT !.exc = "none"]

\* a loop that runs the task made last first
create_task_first(m, kind, socket, value) ==
    [m EXCEPT !.tasks = <<[kind |-> kind, socket |-> socket, value |-> value]>> \o @]

\* asyncio.create_task: the loop runs the tasks in the order they were made in
create_task(m, kind, socket, value) ==
    [m EXCEPT !.tasks = Append(@, [kind |-> kind, socket |-> socket, value |-> value])]

\* json.dumps and json.loads: a message on a socket is JSON text, or text that
\* json.loads rejects
json_dumps(value) == [kind |-> "json", value |-> value]
Garbage == [kind |-> "garbage", value |-> [event_id |-> "absent", type |-> "absent"]]
json_ok(message) == message.kind = "json"
json_loads(message) == message.value

\* RealtimeUtils.generate_id: a fresh random id, the n-th one of this connection
generate_id(n) == "evt_" \o ToString(n)

\* RealtimeUtils.iso_timestamp: the clock is not modelled
iso_timestamp == "now"

-----------------------------------------------------------------------------
(* relay.py: the callbacks the gateway registers on the controller *)

event_whitelist ==
    {"response.create", "input_audio_buffer.commit", "input_audio_buffer.append",
     "response.audio_transcript.done", "response.content_part.done",
     "response.output_item.done", "response.done", "conversation.item.created",
     "conversation.item.appended", "conversation.item.completed",
     "conversation.updated", "realtime.event"}

\* relay_wrapper is a coroutine function and dispatch calls it without awaiting
\* the coroutine it returns: its body never runs
relay_wrapper(m, event) == m

\* lambda *args: asyncio.create_task(websocket.close())
close_websocket(m, event) == create_task(m, "close", "downstream", event)

\* callbacks of an application. Each one is on record when it is called;
\* register_on and register_next subscribe the callback late to the watched
\* topic, durably and for one dispatch
WatchedTopic == "conversation.item.appended"
CompletedTopic == "conversation.item.completed"
Noted(m, callback) == [m EXCEPT !.app.invoked = Append(@, callback)]
late(m, event) == Noted(m, "late")
register_on(m, event) ==
    [Noted(m, "register_on") EXCEPT !.client = on(@, WatchedTopic, "late")]
register_next(m, event) ==
    [Noted(m, "register_next") EXCEPT !.client = on_next(@, WatchedTopic, "late")]

\* the callback of the w-th wait_for_next:
\* if not future.done(): future.set_result(event)
WaitCallback(w) == "wait_" \o ToString(w)
WaitCallbacks == {WaitCallback(w) : w \in Waiters}
WaiterOf(callback) == CHOOSE w \in Waiters : WaitCallback(w) = callback
set_result(m, w, event) ==
    IF m.app.waits[w].done THEN m
    ELSE [m EXCEPT !.app.waits[w].done = TRUE, !.app.waits[w].event = event]

RunClientHandler(m, callback, event) ==
    CASE callback = "relay_wrapper" -> relay_wrapper(m, event)
      [] callback = "close_websocket" -> close_websocket(m, event)
      [] callback = "late" -> late(m, event)
      [] callback = "register_on" -> register_on(m, event)
      [] callback = "register_next" -> register_next(m, event)
      [] callback \in WaitCallbacks -> set_result(m, WaiterOf(callback), event)

RECURSIVE RunClientHandlers(_, _, _)
RunClientHandlers(m, callbacks, event) ==
    IF callbacks = <<>> THEN m
    ELSE Then(RunClientHandler(m, Head(callbacks), event),
              LAMBDA m1 : Bind(Tail(callbacks),
                               LAMBDA rest : RunClientHandlers(m1, rest, event)))

\* RealtimeEventHandler.dispatch on the bus of the RealtimeClient
RealtimeClient_dispatch(m, event_name, event) ==
    Then(RunClientHandlers(m, DurableHandlers(m.client, event_name), event),
         LAMBDA m1 :
             Bind(<<[m1 EXCEPT !.client.next_event_handlers = Drop(@, event_name)],
                    NextHandlers(m1.client, event_name)>>,
                  LAMBDA popped : RunClientHandlers(popped[1], popped[2], event)))

\* RealtimeEventHandler.off_next with a callback, on the controller
off_next(m, event_name, callback) ==
    IF \A i \in DOMAIN NextHandlers(m.client, event_name) :
           NextHandlers(m.client, event_name)[i] # callback
    THEN [m EXCEPT !.exc = "ValueError"]
    ELSE [m EXCEPT !.client.next_event_handlers[event_name] = Removed(@, callback)]

\* RealtimeEventHandler.off_next without a callback
off_next_all(m, event_name) ==
    [m EXCEPT !.client.next_event_handlers = Drop(@, event_name)]

\* RealtimeEventHandler.wait_for_next up to its await: the future, the
\* callback and its one-shot subscription
wait_for_next_begins(m, w, event_name, timeout) ==
    [m EXCEPT !.client = on_next(@, event_name, WaitCallback(w)),
              !.app.waits[w] = [NoWait EXCEPT !.pc = "waiting", !.timeout = timeout,
                                              !.topic = event_name]]

\* RealtimeEventHandler.wait_for_next from its await on: asyncio.wait_for gives
\* the result of the future, or raises TimeoutError and None is returned; the
\* finally clause runs off_next, and what it raises replaces the return
wait_for_next_ends(m, w) ==
    Bind(off_next(m, m.app.waits[w].topic, WaitCallback(w)),
         LAMBDA m1 :
             IF m1.exc # "none" THEN [m1 EXCEPT !.app.waits[w].pc = "raised"]
             ELSE [m1 EXCEPT !.app.waits[w].pc = "returned",
                             !.app.waits[w].result = m.app.waits[w].event])

-----------------------------------------------------------------------------
(* RealtimeClient: the handlers it registers on its RealtimeAPI *)

default_session_config ==
    [instructions |-> <<>>, tools |-> <<>>, turn_detection |-> "none", voice |-> "alloy"]

\* RealtimeClient._handler
_handler(m, event, args) ==
    Bind(process_event(m.conversation, event, args),
         LAMBDA r :
             [m EXCEPT !.conversation = r.conv,
                       !.exc = r.exc,
                       !.last = [args |-> args, delta |-> r.delta, event |-> event,
                                 exc |-> r.exc, item |-> r.item],
                       !.nEvents = @ + 1])

\* RealtimeClient._handler_with_dispatch
_handler_with_dispatch(m, event, args) ==
    Then(_handler(m, event, args),
         LAMBDA m1 :
             IF m1.last.item = NoItem THEN m1
             ELSE RealtimeClient_dispatch(m1, "conversation.updated",
                                          [delta |-> m1.last.delta,
                                           item |-> m1.last.item]))

\* lambda event: self.dispatch("realtime.event", {time, source, event})
on_client_event(m, event) ==
    RealtimeClient_dispatch(m, "realtime.event",
                            [event |-> event, source |-> "client", time |-> iso_timestamp])

on_server_event(m, event) ==
    RealtimeClient_dispatch(m, "realtime.event",
                            [event |-> event, source |-> "server", time |-> iso_timestamp])

\* lambda _: setattr(self, "session_created", True)
on_session_created(m, event) == [m EXCEPT !.client.session_created = TRUE]

\* lambda event: (self._handler(event), self.dispatch("conversation.interrupted")):
\* dispatch takes the event as well, the call raises TypeError
on_speech_started(m, event) ==
    Then(_handler(m, event, <<>>), LAMBDA m1 : [m1 EXCEPT !.exc = "TypeError"])

\* lambda event: self._handler(event, self.input_audio_buffer)
on_speech_stopped(m, event) == _handler(m, event, <<m.client.input_audio_buffer>>)

\* RealtimeClient._safe_handler
_safe_handler(m, event) ==
    IF "item" \notin DOMAIN event THEN m
    ELSE Caught(Then(RealtimeClient_dispatch(m, "conversation.item.appended",
                                             [item |-> event.item]),
                     LAMBDA m1 :
                         IF event.item.status # "completed" THEN m1
                         ELSE RealtimeClient_dispatch(m1, "conversation.item.completed",
                                                      [item |-> event.item])))

\* RealtimeClient._handle_response_output_item_done
_handle_response_output_item_done(m, event) ==
    Then(_handler_with_dispatch(m, event, <<>>),
         LAMBDA m1 :
             IF m1.last.item = NoItem THEN m1
             ELSE Then(IF m1.last.item.status = "completed"
                       THEN RealtimeClient_dispatch(m1, "conversation.item.completed",
                                                    [item |-> m1.last.item])
                       ELSE m1,
                       LAMBDA m2 :
                           IF ~m1.last.item.formatted.tool.present THEN m2
                           ELSE create_task(m2, "call_tool", "upstream",
                                            m1.last.item.formatted.tool)))

\* RealtimeClient._add_api_event_handlers: the topics of the RealtimeAPI and
\* the callback each one gets
WithDispatch ==
    {"conversation.item.truncated", "conversation.item.deleted",
     "conversation.item.input_audio_transcription.completed",
     "response.audio_transcript.delta", "response.audio.delta",
     "response.text.delta", "response.function_call_arguments.delta"}

Plain == {"response.created", "response.output_item.added", "response.content_part.added"}

ApiTopics ==
    {"client.*", "server.*", "server.session.created",
     "server.input_audio_buffer.speech_started",
     "server.input_audio_buffer.speech_stopped",
     "server.conversation.item.created", "server.response.output_item.done"}
    \cup {"server." \o t : t \in WithDispatch \cup Plain}

_add_api_event_handlers ==
    [topic \in ApiTopics |->
        CASE topic = "client.*" -> <<"on_client_event">>
          [] topic = "server.*" -> <<"on_server_event">>
          [] topic = "server.session.created" -> <<"on_session_created">>
          [] topic = "server.input_audio_buffer.speech_started" -> <<"on_speech_started">>
          [] topic = "server.input_audio_buffer.speech_stopped" -> <<"on_speech_stopped">>
          [] topic = "server.conversation.item.created" -> <<"_safe_handler">>
          [] topic = "server.response.output_item.done" ->
                 <<"_handle_response_output_item_done">>
          [] topic \in {"server." \o t : t \in Plain} -> <<"_handler">>
          [] OTHER -> <<"_handler_with_dispatch">>]

\* a callback of the application on the close topic of the RealtimeAPI
on_close(m, event) == Noted(m, "on_close")

RunApiHandler(m, callback, event) ==
    CASE callback = "on_client_event" -> on_client_event(m, event)
      [] callback = "on_close" -> on_close(m, event)
      [] callback = "on_server_event" -> on_server_event(m, event)
      [] callback = "on_session_created" -> on_session_created(m, event)
      [] callback = "on_speech_started" -> on_speech_started(m, event)
      [] callback = "on_speech_stopped" -> on_speech_stopped(m, event)
      [] callback = "_safe_handler" -> _safe_handler(m, event)
      [] callback = "_handler" -> _handler(m, event, <<>>)
      [] callback = "_handler_with_dispatch" -> _handler_with_dispatch(m, event, <<>>)
      [] callback = "_handle_response_output_item_done" ->
             _handle_response_output_item_done(m, event)

\* what is left to do of the dispatches under way: the dispatch of a topic,
\* the one-shot handlers of a topic, a callback
DispatchOf(event_name) == [name |-> event_name, op |-> "dispatch"]
NextOf(event_name) == [name |-> event_name, op |-> "next"]
CallsOf(callbacks) == [i \in DOMAIN callbacks |-> [name |-> callbacks[i], op |-> "call"]]

\* RealtimeEventHandler.dispatch on the bus of the RealtimeAPI, one topic after
\* the other: the handlers the topic has when its dispatch starts, each called
\* in turn, then its one-shot handlers, popped before they are called. A
\* callback that raises ends it all
RECURSIVE RunApiHandlers(_, _, _)
RunApiHandlers(m, work, event) ==
    IF work = <<>> THEN m
    ELSE CASE Head(work).op = "dispatch" ->
                  Bind(CallsOf(DurableHandlers(m.realtime, Head(work).name))
                           \o <<NextOf(Head(work).name)>> \o Tail(work),
                       LAMBDA rest : RunApiHandlers(m, rest, event))
           [] Head(work).op = "next" ->
                  Bind(<<[m EXCEPT !.realtime.next_event_handlers =
                                       Drop(@, Head(work).name)],
                         CallsOf(NextHandlers(m.realtime, Head(work).name)) \o Tail(work)>>,
                       LAMBDA popped : RunApiHandlers(popped[1], popped[2], event))
           [] Head(work).op = "call" ->
                  Then(RunApiHandler(m, Head(work).name, event),
                       LAMBDA m1 : Bind(Tail(work),
                                        LAMBDA rest : RunApiHandlers(m1, rest, event)))

\* self.dispatch(event_name, event) on the RealtimeAPI
RealtimeAPI_dispatch(m, event_name, event) ==
    RunApiHandlers(m, <<DispatchOf(event_name)>>, event)

-----------------------------------------------------------------------------
(* RealtimeAPI *)

\* RealtimeAPI.is_connected: self.ws is not None and self.ws.open
RealtimeAPI_is_connected(m) == m.realtime.ws # "none" /\ m.upstream.state = "open"

\* the model of RealtimeAPI.connect(model) when the caller gives none
default_model == "gpt-4o-realtime-preview-2024-10-01"

\* RealtimeAPI.connect up to `await websockets.connect(...)`; the API key is
\* configured
connect_begins(m, c) ==
    IF RealtimeAPI_is_connected(m)
    THEN [m EXCEPT !.exc = "ConnectionError", !.app.connects[c] = "raised"]
    ELSE [m EXCEPT !.app.connects[c] = "connecting"]

\* the name tasks have for the k-th earlier transport
EarlierSocket(k) == "earlier_" \o ToString(k)

\* self.ws is assigned a new transport: the transport it referred to, if one
\* was opened, is an earlier one from now on, with the pump and the monitor
\* started on it and the tasks that hold it
Superseded(m) ==
    IF m.upstream.state \notin {"open", "closed"} THEN m
    ELSE [m EXCEPT
             !.app.earlier = Append(@, [monitor |-> m.realtime.monitor,
                                        pump |-> m.realtime.pump,
                                        state |-> m.upstream.state,
                                        strayed |-> FALSE]),
             !.tasks = [i \in DOMAIN @ |->
                           IF @[i].socket = "upstream"
                           THEN [@[i] EXCEPT !.socket =
                                                 EarlierSocket(Len(m.app.earlier) + 1)]
                           ELSE @[i]]]

\* RealtimeAPI.connect, websockets.connect has returned a transport: self.ws
\* is that transport, the pump and the monitor are started on it
connect_opens(m, c) ==
    [Superseded(m) EXCEPT !.realtime.ws = "upstream",
              !.realtime.pump = "running",
              !.realtime.monitor = "running",
              !.upstream = [closed_by |-> "none", inbox |-> <<>>, model |-> default_model,
                            offered |-> @.offered, sent |-> <<>>, state |-> "open"],
              !.app.opened = @ + 1,
              !.app.connects[c] = "returned"]

\* RealtimeAPI.connect, websockets.connect has raised: self.ws = None and
\* ConnectionError
connect_fails(m, c) ==
    [m EXCEPT !.realtime.ws = "none",
              !.exc = "ConnectionError",
              !.app.connects[c] = "raised"]

\* disconnect that forgets the transport without closing it
RealtimeAPI_disconnect_keeps_transport(m) == [m EXCEPT !.realtime.ws = "none"]

\* RealtimeAPI.disconnect
RealtimeAPI_disconnect(m) ==
    [(IF m.realtime.ws # "none"
      THEN create_task(m, "close", "upstream", [error |-> FALSE])
      ELSE m) EXCEPT !.realtime.ws = "none"]

\* RealtimeAPI._monitor_connection that ignores a ping that raised
ping_ignored(m) == m

\* RealtimeAPI._monitor_connection, the except clause of the ping:
\* self.dispatch("close", {"error": True}), self.disconnect()
ping_failed(m) ==
    Then(RealtimeAPI_dispatch(m, "close", [error |-> TRUE]),
         LAMBDA m1 : RealtimeAPI_disconnect(m1))

\* RealtimeAPI.receive
RealtimeAPI_receive(m, event_name, event) ==
    RunApiHandlers(m, <<DispatchOf("server." \o event_name), DispatchOf("server.*")>>, event)

\* {"event_id": generate_id, "type": event_name, **data}: the keys of data win
Envelope(id, event_name, data) ==
    [data EXCEPT !.event_id = IF @ = "absent" THEN id ELSE @,
                 !.type = IF @ = "absent" THEN event_name ELSE @]

\* RealtimeAPI.send
RealtimeAPI_send(m, event_name, data) ==
    IF ~RealtimeAPI_is_connected(m) THEN [m EXCEPT !.exc = "ConnectionError"]
    ELSE Bind(Envelope(generate_id(m.realtime.ids + 1), event_name, data),
              LAMBDA event :
                  Then(RunApiHandlers([m EXCEPT !.realtime.ids = @ + 1],
                                      <<DispatchOf("client." \o event_name),
                                        DispatchOf("client.*")>>,
                                      event),
                       LAMBDA m2 : create_task(m2, "send", "upstream",
                                               json_dumps(event))))

\* RealtimeAPI.send_to_client
send_to_client(m, data) ==
    IF m.realtime.client_ws # "none" /\ m.downstream.state = "open"
    THEN [m EXCEPT !.downstream.received = Append(@, json_dumps(data))]
    ELSE m

\* RealtimeAPI.set_client_websocket
set_client_websocket(m, ws) == [m EXCEPT !.realtime.client_ws = ws]

-----------------------------------------------------------------------------
(* RealtimeClient *)

\* the tool registry self.tools is a dict, kept here in insertion order: a
\* sequence of registrations, each under the name of its definition
HasTool(tools, name) == \E i \in DOMAIN tools : tools[i].definition.name = name
ToolNamed(tools, name) == tools[CHOOSE i \in DOMAIN tools : tools[i].definition.name = name]
WithoutTool(tools, name) == SelectSeq(tools, LAMBDA t : t.definition.name # name)

\* [{"type": "function", **tool["definition"]} for tool in self.tools.values()]
ToolDefinitions(tools) ==
    [i \in DOMAIN tools |-> [name |-> tools[i].definition.name, type |-> "function"]]

\* the keyword arguments of update_session: given names the ones that are
\* supplied with a value other than None
NoKwargs ==
    [given |-> {}, instructions |-> <<>>, tools |-> <<>>, turn_detection |-> "none",
     voice |-> "alloy"]

\* self.session_config.update({k: v for k, v in kwargs.items() if v is not None})
UpdatedConfig(config, kwargs) ==
    [instructions |-> IF "instructions" \in kwargs.given THEN kwargs.instructions
                      ELSE config.instructions,
     tools |-> IF "tools" \in kwargs.given THEN kwargs.tools ELSE config.tools,
     turn_detection |-> IF "turn_detection" \in kwargs.given THEN kwargs.turn_detection
                        ELSE config.turn_detection,
     voice |-> IF "voice" \in kwargs.given THEN kwargs.voice ELSE config.voice]

\* an update_session that forgets the registered tools
SessionOf_without_registry(config, kwargs, tools) ==
    [config EXCEPT !.tools = IF "tools" \in kwargs.given THEN kwargs.tools ELSE <<>>]

\* session = {**self.session_config, "tools": use_tools}
SessionOf(config, kwargs, tools) ==
    [config EXCEPT !.tools = (IF "tools" \in kwargs.given THEN kwargs.tools ELSE <<>>)
                                 \o ToolDefinitions(tools)]

\* data = data or {}: an envelope without data
NoData == [event_id |-> "absent", type |-> "absent"]

\* RealtimeClient.update_session
update_session(m, kwargs) ==
    Bind([m EXCEPT !.client.session_config = UpdatedConfig(@, kwargs)],
         LAMBDA m1 :
             IF RealtimeAPI_is_connected(m1)
             THEN RealtimeAPI_send(m1, "session.update",
                                   [event_id |-> "absent",
                                    session |-> SessionOf(m1.client.session_config,
                                                          kwargs, m1.client.tools),
                                    type |-> "absent"])
             ELSE m1)

\* RealtimeClient.disconnect
RealtimeClient_disconnect(m) ==
    [(IF RealtimeAPI_is_connected(m) THEN RealtimeAPI_disconnect(m) ELSE m)
        EXCEPT !.client.session_created = FALSE,
               !.conversation = ClearedConversation]

\* RealtimeClient.send
RealtimeClient_send(m, event_name, data) ==
    IF ~RealtimeAPI_is_connected(m) THEN m ELSE RealtimeAPI_send(m, event_name, data)

\* RealtimeClient._reset_config
_reset_config(m) ==
    [m EXCEPT !.client.input_audio_buffer = <<>>,
              !.client.session_config = default_session_config,
              !.client.session_created = FALSE,
              !.client.tools = <<>>]

\* RealtimeClient._add_api_event_handlers on the bus as it is: realtime.on
\* appends each callback to the list its topic has
RegisterApiHandlers(bus) ==
    [bus EXCEPT !.event_handlers =
        [topic \in (DOMAIN bus.event_handlers) \cup ApiTopics |->
            (IF topic \in DOMAIN bus.event_handlers
             THEN bus.event_handlers[topic] ELSE <<>>)
            \o (IF topic \in ApiTopics THEN _add_api_event_handlers[topic] ELSE <<>>)]]

\* RealtimeClient.reset
reset(m) ==
    Bind(RealtimeClient_disconnect(m),
         LAMBDA m1 :
             _reset_config([m1 EXCEPT
                 !.client = clear_event_handlers(@),
                 !.realtime = RegisterApiHandlers(clear_event_handlers(@))]))

\* add_tool that registers over a tool of the same name
add_tool_unchecked(m, definition, handler) ==
    IF definition.name = "absent" THEN [m EXCEPT !.exc = "ValueError"]
    ELSE IF handler = "not_callable" THEN [m EXCEPT !.exc = "TypeError"]
    ELSE Bind([m EXCEPT !.client.tools =
                   Append(@, [definition |-> definition, handler |-> handler])],
              LAMBDA m1 : update_session(m1, NoKwargs))

\* RealtimeClient.add_tool: a definition without a name has name "absent"
add_tool(m, definition, handler) ==
    IF definition.name = "absent" THEN [m EXCEPT !.exc = "ValueError"]
    ELSE IF HasTool(m.client.tools, definition.name) THEN [m EXCEPT !.exc = "ValueError"]
    ELSE IF handler = "not_callable" THEN [m EXCEPT !.exc = "TypeError"]
    ELSE Bind([m EXCEPT !.client.tools =
                   Append(@, [definition |-> definition, handler |-> handler])],
              LAMBDA m1 : update_session(m1, NoKwargs))

\* RealtimeClient.remove_tool
remove_tool(m, name) ==
    IF ~HasTool(m.client.tools, name) THEN [m EXCEPT !.exc = "ValueError"]
    ELSE [m EXCEPT !.client.tools = WithoutTool(@, name)]

\* RealtimeClient.get_turn_detection_type:
\* self.session_config.get("turn_detection", {}).get("type"). The key is
\* always there, so the default {} is never used: with the value None the
\* second get raises AttributeError, with a dict the call gives its type
\* ("none" for a dict without one, written "{}" here)
get_turn_detection_type_raises(config) == config.turn_detection = "none"
get_turn_detection_type(config) ==
    IF config.turn_detection = "{}" THEN "none" ELSE config.turn_detection

\* RealtimeClient.create_response
create_response(m) ==
    IF get_turn_detection_type_raises(m.client.session_config)
    THEN [m EXCEPT !.exc = "AttributeError"]
    ELSE Then(IF /\ get_turn_detection_type(m.client.session_config) = "none"
                 /\ m.client.input_audio_buffer # <<>>
              THEN Then(RealtimeAPI_send(m, "input_audio_buffer.commit", NoData),
                        LAMBDA m1 :
                            [m1 EXCEPT !.conversation =
                                           queue_input_audio(@, m1.client.input_audio_buffer),
                                       !.client.input_audio_buffer = <<>>])
              ELSE m,
              LAMBDA m2 : RealtimeAPI_send(m2, "response.create", NoData))

\* RealtimeClient.append_input_audio
append_input_audio(m, audio_bytes) ==
    IF audio_bytes = <<>> THEN m
    ELSE Then(RealtimeAPI_send(m, "input_audio_buffer.append",
                               [audio |-> bytes_to_base64(audio_bytes),
                                event_id |-> "absent", type |-> "absent"]),
              LAMBDA m1 : [m1 EXCEPT !.client.input_audio_buffer = @ \o audio_bytes])

\* next((i for i, c in enumerate(item["content"]) if c["type"] == "audio"), -1):
\* the position from 1 of the first audio part, 0 when there is none
AudioIndex(content) ==
    IF \E i \in DOMAIN content : content[i].type = "audio"
    THEN CHOOSE i \in DOMAIN content :
             /\ content[i].type = "audio"
             /\ \A j \in 1..(i - 1) : content[j].type # "audio"
    ELSE 0

\* the parts the generator reads before it stops all have a type
PartsTyped(content) ==
    \A i \in DOMAIN content :
        (\A j \in 1..(i - 1) : content[j].type # "audio") => content[i].type # "absent"

\* int((sample_count / default_frequency) * 1000) for a non-negative count
SamplesToMs(sample_count) == (sample_count * 1000) \div default_frequency

\* RealtimeClient.cancel_response with an id ("" asks for no item)
cancel_response(m, id, sample_count) ==
    IF id = "" THEN RealtimeAPI_send(m, "response.cancel", NoData)
    ELSE IF ~HasItem(m.conversation, id) THEN [m EXCEPT !.exc = "ValueError"]
    ELSE Bind(get_item(m.conversation, id),
              LAMBDA item :
                  IF item.type = "absent" THEN [m EXCEPT !.exc = "KeyError"]
                  ELSE IF item.type # "message" THEN [m EXCEPT !.exc = "TypeError"]
                  ELSE IF item.role = "absent" THEN [m EXCEPT !.exc = "KeyError"]
                  ELSE IF item.role # "assistant" THEN [m EXCEPT !.exc = "ValueError"]
                  ELSE Then(RealtimeAPI_send(m, "response.cancel", NoData),
                            LAMBDA m1 :
                                IF ~item.has_content \/ ~PartsTyped(item.content)
                                THEN [m1 EXCEPT !.exc = "KeyError"]
                                ELSE IF AudioIndex(item.content) = 0
                                THEN [m1 EXCEPT !.exc = "ValueError"]
                                ELSE RealtimeAPI_send(
                                         m1, "conversation.item.truncate",
                                         [audio_end_ms |-> SamplesToMs(sample_count),
                                          content_index |-> AudioIndex(item.content) - 1,
                                          event_id |-> "absent",
                                          item_id |-> id,
                                          type |-> "absent"])))

\* RealtimeUtils.parse_json: of the argument texts the model draws, {} is JSON
\* and the others raise JSONDecodeError
parse_json_ok(text) == text = <<"{", "}">>

\* the function_call_output item _call_tool sends: output is what
\* stringify_json gives for the result of the handler (an object that has no
\* error key) or for {"error": str(e)}
ToolOutput(tool, error) ==
    [event_id |-> "absent",
     item |-> [call_id |-> tool.call_id,
               output |-> json_dumps([error |-> error]),
               type |-> "function_call_output"],
     type |-> "absent"]

\* what the try block of _call_tool raises, "none" when the handler returned
ToolFailure(m, tool) ==
    IF ~parse_json_ok(tool.arguments) THEN "JSONDecodeError"
    ELSE IF tool.name = "absent" THEN "KeyError"
    ELSE IF ~HasTool(m.client.tools, tool.name) THEN "ValueError"
    ELSE IF ToolNamed(m.client.tools, tool.name).handler = "raises" THEN "HandlerError"
    ELSE "none"

\* RealtimeClient._call_tool: the handler is awaited and returns or raises
\* without giving way to another task. A descriptor without a call id makes
\* the item of the try block, or the one of the except clause, raise KeyError
_call_tool(m, tool) ==
    IF tool.call_id = "absent" THEN [m EXCEPT !.exc = "KeyError"]
    ELSE
    \* without a connection the send of the try block raises ConnectionError,
    \* and the send of the except clause raises it again
    Then(RealtimeAPI_send(m, "conversation.item.create",
                          ToolOutput(tool, IF ToolFailure(m, tool) # "none"
                                           THEN ToolFailure(m, tool)
                                           ELSE IF RealtimeAPI_is_connected(m) THEN "absent"
                                           ELSE "ConnectionError")),
         LAMBDA m1 : create_response(m1))

\* the call ends: what it raised is on record, with the call before it, and
\* the caller goes on. The arguments are on record as strings
Ret(m, op, args) ==
    [m EXCEPT !.call = [args |-> args, exc |-> m.exc, n |-> @.n + 1, op |-> op,
                        prev |-> [exc |-> @.exc, op |-> @.op]],
              !.exc = "none"]

-----------------------------------------------------------------------------
(* RealtimeRelay.connection_handler *)

\* message_handler
\* the shadow table of message_handler: self.items
TrackItem(m, event) ==
    IF event.type = "conversation.item.created"
    THEN [m EXCEPT !.relay.items = Put(@, event.item.id, event.item)]
    ELSE IF "item_id" \in DOMAIN event /\ event.item_id \notin DOMAIN m.relay.items
    THEN [m EXCEPT !.relay.items = Put(@, event.item_id, [id |-> event.item_id])]
    ELSE m

message_handler(m, data) ==
    IF ~json_ok(data) THEN m
    ELSE Bind(json_loads(data),
              LAMBDA event :
                  IF event.type = "absent" THEN m
                  ELSE Bind(TrackItem(m, event),
                            LAMBDA m1 : Caught(RealtimeClient_send(m1, event.type, event))))

\* what the peers of the pairing send
UpstreamEvents ==
    {ItemEvent("conversation.item.created", item) :
         item \in {UserMessage("a1"), FunctionCall("a1")}}
    \cup {[event_id |-> "evt", type |-> "session.created"],
          [event_id |-> "evt", type |-> "absent"],
          DeltaEvent("response.text.delta", "a1", 0, <<"x">>),
          StartEvent("a1", 1)}

UpstreamMessages == {json_dumps(e) : e \in UpstreamEvents} \cup {Garbage}

DownstreamMessages ==
    {json_dumps([event_id |-> "absent", type |-> "response.create"]), Garbage}

-----------------------------------------------------------------------------
(* The state after construction *)

\* no call was made yet
NoCall ==
    [args |-> <<>>, exc |-> "none", n |-> 0, op |-> "none",
     prev |-> [exc |-> "none", op |-> "none"]]

NoEvent == [args |-> <<>>, delta |-> NoDelta,
            event |-> [event_id |-> "absent", type |-> "absent"],
            exc |-> "none", item |-> NoItem]

\* the state after construction, with a downstream socket accepted whose
\* request has the model parameter, or "absent"
Constructed(request) ==
    /\ conversation = ClearedConversation
    /\ last = NoEvent
    /\ nEvents = 0
    /\ client = [event_handlers |-> EmptyMap,
                 input_audio_buffer |-> <<>>,
                 next_event_handlers |-> EmptyMap,
                 session_config |-> default_session_config,
                 session_created |-> FALSE,
                 tools |-> <<>>]
    /\ realtime = [client_ws |-> "none",
                   event_handlers |-> _add_api_event_handlers,
                   ids |-> 0,
                   monitor |-> "none",
                   next_event_handlers |-> EmptyMap,
                   pump |-> "none",
                   ws |-> "none"]
    /\ upstream = [closed_by |-> "none", inbox |-> <<>>, model |-> "none", offered |-> 0,
                   sent |-> <<>>, state |-> "none"]
    /\ downstream = [closed_by |-> "none", inbox |-> <<>>, offered |-> 0,
                     received |-> <<>>, state |-> "open"]
    /\ relay = [items |-> EmptyMap, model |-> "none", pc |-> "accepted",
                request |-> request]
    /\ tasks = <<>>
    /\ call = NoCall
    /\ app = NoApp

\* the request of the downstream socket names no model
Init == Constructed("absent")

\* the request of the downstream socket names a model or none
RequestModels == {"absent", "gpt-4o-mini-realtime-preview"}

RequestInit == \E request \in RequestModels : Constructed(request)

-----------------------------------------------------------------------------
(* A caller hands events to RealtimeConversation.process_event *)

Process(event, args) ==
    /\ LET r == process_event(conversation, event, args)
       IN  /\ conversation' = r.conv
           /\ last' = [args |-> args, delta |-> r.delta, event |-> event,
                       exc |-> r.exc, item |-> r.item]
    /\ nEvents' = nEvents + 1
    /\ UNCHANGED <<client, realtime, upstream, downstream, relay, tasks, call, app>>

CreateItem(kinds(_)) ==
    \E id \in ItemIds : \E item \in kinds(id) :
        Process(ItemEvent("conversation.item.created", item), <<>>)

TranscriptDeltaOf(ids, fragments) ==
    \E id \in ids : \E k \in ContentIndexes : \E d \in fragments :
        Process(DeltaEvent("response.audio_transcript.delta", id, k, d), <<>>)

AudioDeltaOf(ids, fragments) ==
    \E id \in ids : \E k \in ContentIndexes : \E d \in fragments :
        Process(DeltaEvent("response.audio.delta", id, k, d), <<>>)

TextDeltaOf(ids, fragments) ==
    \E id \in ids : \E k \in ContentIndexes : \E d \in fragments :
        Process(DeltaEvent("response.text.delta", id, k, d), <<>>)

ArgumentsDeltaOf(ids, fragments) ==
    \E id \in ids : \E d \in fragments : Process(ArgumentsEvent(id, d), <<>>)

(* Spec: every processor. Items a1 and a2 are announced, deleted and spoken;
   the responses stream into a1. *)

ItemCreated ==
    /\ nEvents < MaxEvents
    /\ CreateItem(CreatedItems)

ItemTruncated ==
    /\ nEvents < MaxEvents
    /\ \E id \in ItemIds : \E ms \in TruncateMarks :
           Process(EndEvent("conversation.item.truncated", id, ms), <<>>)

ItemDeleted ==
    /\ nEvents < MaxEvents
    /\ \E id \in ItemIds : Process(IdEvent("conversation.item.deleted", id), <<>>)

TranscriptionCompleted ==
    /\ nEvents < MaxEvents
    /\ \E id \in AnsweredIds : \E k \in ContentIndexes : \E t \in Transcripts :
           Process(TranscriptEvent(id, k, t), <<>>)

SpeechStarted ==
    /\ nEvents < MaxEvents
    /\ \E id \in ItemIds : \E ms \in StartMarks : Process(StartEvent(id, ms), <<>>)

SpeechStopped ==
    /\ nEvents < MaxEvents
    /\ \E id \in ItemIds : \E ms \in EndMarks : \E snapshot \in Snapshots :
           Process(EndEvent("input_audio_buffer.speech_stopped", id, ms), <<snapshot>>)

ResponseCreated ==
    /\ nEvents < MaxEvents
    /\ \E r \in ResponseIds : Process(ResponseEvent(r), <<>>)

OutputItemAdded ==
    /\ nEvents < MaxEvents
    /\ \E r \in ResponseIds : \E id \in AnsweredIds :
           Process(OutputItemEvent(r, AssistantMessage(id)), <<>>)

OutputItemDone ==
    /\ nEvents < MaxEvents
    /\ \E id \in AnsweredIds : \E item \in DoneItems(id) :
           Process(ItemEvent("response.output_item.done", item), <<>>)

ContentPartAdded ==
    /\ nEvents < MaxEvents
    /\ \E id \in AnsweredIds :
           Process(PartEvent(id, Part("audio", Absent, Absent, Absent)), <<>>)

AudioTranscriptDelta ==
    /\ nEvents < MaxEvents
    /\ TranscriptDeltaOf(AnsweredIds, {<<"x">>})

AudioDelta ==
    /\ nEvents < MaxEvents
    /\ AudioDeltaOf(AnsweredIds, {<<"A", "Q", "I", "D">>})

TextDelta ==
    /\ nEvents < MaxEvents
    /\ TextDeltaOf(AnsweredIds, {<<"x">>})

FunctionCallArgumentsDelta ==
    /\ nEvents < MaxEvents
    /\ ArgumentsDeltaOf(AnsweredIds, {<<"x">>})

Rejected ==
    /\ nEvents < MaxEvents
    /\ \E event \in MalformedEvents : Process(event, <<>>)

Next ==
    \/ ItemCreated
    \/ ItemTruncated
    \/ ItemDeleted
    \/ TranscriptionCompleted
    \/ SpeechStarted
    \/ SpeechStopped
    \/ ResponseCreated
    \/ OutputItemAdded
    \/ OutputItemDone
    \/ ContentPartAdded
    \/ AudioTranscriptDelta
    \/ AudioDelta
    \/ TextDelta
    \/ FunctionCallArgumentsDelta
    \/ Rejected

Spec == Init /\ [][Next]_vars

(* DeltaSpec: items are announced or not, and every kind of delta streams
   into both of them *)

AnnouncedItems(id) == {AssistantMessage(id), FunctionCall(id)}

Announce ==
    /\ nEvents < MaxEvents
    /\ CreateItem(AnnouncedItems)

StreamTranscript ==
    /\ nEvents < MaxEvents
    /\ TranscriptDeltaOf(ItemIds, {<<"x">>})

StreamAudio ==
    /\ nEvents < MaxEvents
    /\ AudioDeltaOf(ItemIds, AudioFragments)

StreamText ==
    /\ nEvents < MaxEvents
    /\ TextDeltaOf(ItemIds, TextFragments)

StreamArguments ==
    /\ nEvents < MaxEvents
    /\ ArgumentsDeltaOf(ItemIds, TextFragments)

DeltaNext ==
    \/ Announce
    \/ StreamTranscript
    \/ StreamAudio
    \/ StreamText
    \/ StreamArguments

DeltaSpec == Init /\ [][DeltaNext]_vars

-----------------------------------------------------------------------------
(* GatewaySpec: one pairing of a downstream socket with an upstream session *)

\* connection_handler from its first line to the await of websockets.connect:
\* the model of the request is parsed, the controller gets the downstream
\* socket and the three callbacks, and client.connect() starts opening the
\* upstream transport: it calls realtime.connect() with no model
RelayAccepts ==
    /\ relay.pc = "accepted"
    /\ Commit([set_client_websocket(Machine, "downstream") EXCEPT
                  !.client = on(on(on(@, "realtime.event", "relay_wrapper"),
                                   "conversation.updated", "relay_wrapper"),
                                "close", "close_websocket"),
                  !.relay.model = IF relay.request = "absent" THEN default_model
                                  ELSE relay.request,
                  !.relay.pc = "connecting",
                  !.upstream.model = default_model,
                  !.upstream.state = "connecting"])

\* websockets.connect returns the transport: RealtimeAPI.connect starts the
\* pump and the monitor, RealtimeClient.connect sends the session, and the
\* gateway enters its read loop
ConnectOpens ==
    /\ relay.pc = "connecting"
    /\ \E m \in {[Machine EXCEPT !.upstream.state = "open",
                                 !.realtime.ws = "upstream",
                                 !.realtime.pump = "running",
                                 !.realtime.monitor = "running"]} :
           Commit([update_session(m, NoKwargs) EXCEPT !.relay.pc = "loop"])

\* websockets.connect raises: RealtimeAPI.connect raises ConnectionError,
\* connection_handler logs it and runs its finally clause
ConnectFails ==
    /\ relay.pc = "connecting"
    /\ \E m \in {[Machine EXCEPT !.upstream.state = "failed", !.realtime.ws = "none"]} :
           Commit([RealtimeClient_disconnect(m) EXCEPT !.relay.pc = "done"])

\* async for message in websocket: await message_handler(message)
RelayReceives ==
    /\ relay.pc = "loop"
    /\ downstream.inbox # <<>>
    /\ \E m \in {[Machine EXCEPT !.downstream.inbox = Tail(@)]} :
           Commit(message_handler(m, Head(downstream.inbox)))

\* the read loop ends, normally or with ConnectionClosed: finally: client.disconnect()
RelayLoopEnds ==
    /\ relay.pc = "loop"
    /\ downstream.inbox = <<>>
    /\ downstream.state = "closed"
    /\ \E m \in {Machine} :
           Commit([RealtimeClient_disconnect(m) EXCEPT !.relay.pc = "done"])

\* websockets.serve closes the socket of a handler that has returned
ServeCloses ==
    /\ relay.pc = "done"
    /\ downstream.state = "open"
    /\ downstream' = [downstream EXCEPT !.state = "closed", !.closed_by = "server"]
    /\ UNCHANGED <<conversation, last, nEvents, client, realtime, upstream, relay, tasks, call, app>>

\* RealtimeAPI._handle_messages, one message
PumpHandles ==
    /\ realtime.pump = "running"
    /\ upstream.inbox # <<>>
    /\ \E m \in {[Machine EXCEPT !.upstream.inbox = Tail(@)]} :
           IF ~json_ok(Head(upstream.inbox)) THEN Commit(m)
           ELSE \E data \in {json_loads(Head(upstream.inbox))} :
                    IF data.type = "absent" THEN Commit(m)
                    ELSE \E m1 \in {RealtimeAPI_receive(m, data.type, data)} :
                             IF m1.exc # "none" THEN Commit(Caught(m1))
                             ELSE Commit(send_to_client(m1, data))

\* RealtimeAPI._handle_messages, the transport is closed: finally: self.disconnect()
PumpEnds ==
    /\ realtime.pump = "running"
    /\ upstream.inbox = <<>>
    /\ upstream.state = "closed"
    /\ \E m \in {Machine} :
           Commit([RealtimeAPI_disconnect(m) EXCEPT !.realtime.pump = "ended"])

\* RealtimeAPI._monitor_connection, the ping raises: the except clause, and
\* break (or the exception of a close handler) ends the monitor
MonitorPingFails ==
    /\ realtime.monitor = "running"
    /\ \E m \in {Machine} :
           /\ RealtimeAPI_is_connected(m)
           /\ Commit([ping_failed(m) EXCEPT !.realtime.monitor = "failed"])

\* RealtimeAPI._monitor_connection, the loop condition is false
MonitorEnds ==
    /\ realtime.monitor = "running"
    /\ \E m \in {Machine} : ~RealtimeAPI_is_connected(m)
    /\ realtime' = [realtime EXCEPT !.monitor = "ended"]
    /\ UNCHANGED <<conversation, last, nEvents, client, upstream, downstream, relay, tasks, call, app>>

\* the event loop runs the oldest task that asyncio.create_task has scheduled:
\* ws.send(...) writes to an open transport and raises in the task otherwise,
\* ws.close() closes a socket that is open, _call_tool runs the tool pipeline.
\* What is written to an earlier transport is not followed
RunTask ==
    /\ tasks # <<>>
    /\ \E task \in {Head(tasks)} : \E m \in {[Machine EXCEPT !.tasks = Tail(@)]} :
           CASE task.kind = "send" /\ task.socket = "upstream" ->
                    Commit(IF m.upstream.state = "open"
                           THEN [m EXCEPT !.upstream.sent = Append(@, task.value)]
                           ELSE m)
             [] task.kind = "send" /\ task.socket # "upstream" ->
                    Commit(m)
             [] task.kind = "close" /\ task.socket \notin {"upstream", "downstream"} ->
                    Commit([m EXCEPT !.app.earlier =
                                         [k \in DOMAIN @ |->
                                             IF task.socket = EarlierSocket(k)
                                             THEN [@[k] EXCEPT !.state = "closed"]
                                             ELSE @[k]]])
             [] task.kind = "close" /\ task.socket = "upstream" ->
                    Commit(IF m.upstream.state = "open"
                           THEN [m EXCEPT !.upstream.state = "closed",
                                          !.upstream.closed_by = "gateway"]
                           ELSE m)
             [] task.kind = "close" /\ task.socket = "downstream" ->
                    Commit(IF m.downstream.state = "open"
                           THEN [m EXCEPT !.downstream.state = "closed",
                                          !.downstream.closed_by = "gateway"]
                           ELSE m)
             [] task.kind = "call_tool" ->
                    Commit(Ret(_call_tool(m, task.value), "_call_tool", <<>>))

\* the upstream peer sends a message
UpstreamSends ==
    /\ upstream.state = "open"
    /\ upstream.offered + downstream.offered < MaxMessages
    /\ \E message \in UpstreamMessages :
           upstream' = [upstream EXCEPT !.inbox = Append(@, message),
                                        !.offered = @ + 1]
    /\ UNCHANGED <<conversation, last, nEvents, client, realtime, downstream, relay, tasks, call, app>>

\* the upstream peer closes the transport, or the transport breaks
UpstreamCloses ==
    /\ upstream.state = "open"
    /\ upstream' = [upstream EXCEPT !.state = "closed", !.closed_by = "peer"]
    /\ UNCHANGED <<conversation, last, nEvents, client, realtime, downstream, relay, tasks, call, app>>

\* the downstream peer sends a message
DownstreamSends ==
    /\ downstream.state = "open"
    /\ upstream.offered + downstream.offered < MaxMessages
    /\ \E message \in DownstreamMessages :
           downstream' = [downstream EXCEPT !.inbox = Append(@, message),
                                            !.offered = @ + 1]
    /\ UNCHANGED <<conversation, last, nEvents, client, realtime, upstream, relay, tasks, call, app>>

\* the downstream peer closes the socket, or the socket breaks
DownstreamCloses ==
    /\ downstream.state = "open"
    /\ downstream' = [downstream EXCEPT !.state = "closed", !.closed_by = "peer"]
    /\ UNCHANGED <<conversation, last, nEvents, client, realtime, upstream, relay, tasks, call, app>>

GatewayNext ==
    \/ RelayAccepts
    \/ ConnectOpens
    \/ ConnectFails
    \/ RelayReceives
    \/ RelayLoopEnds
    \/ ServeCloses
    \/ PumpHandles
    \/ PumpEnds
    \/ MonitorPingFails
    \/ MonitorEnds
    \/ RunTask
    \/ UpstreamSends
    \/ UpstreamCloses
    \/ DownstreamSends
    \/ DownstreamCloses

\* The event loop runs every coroutine and task that can go on; an attempt to
\* connect ends, by opening or by failing. The peers and the failure of a ping
\* are under no obligation.
GatewayFairness ==
    /\ WF_vars(RelayAccepts)
    /\ WF_vars(ConnectOpens \/ ConnectFails)
    /\ WF_vars(RelayReceives)
    /\ WF_vars(RelayLoopEnds)
    /\ WF_vars(ServeCloses)
    /\ WF_vars(PumpHandles)
    /\ WF_vars(PumpEnds)
    /\ WF_vars(MonitorEnds)
    /\ WF_vars(RunTask)

GatewaySpec == Init /\ [][GatewayNext]_vars /\ GatewayFairness

\* the pairings of the gateway, for every request
PairingSpec == RequestInit /\ [][GatewayNext]_vars

-----------------------------------------------------------------------------
(* ControllerSpec: an application drives one RealtimeClient, and the upstream
   peer sends events to it *)

\* what the application hands to the calls
ToolNamesUsed == {"f"}
Registrations ==
    {<<[name |-> "f"], "returns">>, <<[name |-> "f"], "not_callable">>,
     <<[name |-> "absent"], "returns">>}
TurnDetections == {"server_vad", "{}"}
AudioChunks == {<<1, 2, 3>>}

\* the keyword arguments of the calls of update_session: a turn detection, a
\* voice, a voice with an ad hoc tool
AdHocTools == << [name |-> "g", type |-> "function"] >>
SessionUpdates ==
    {[NoKwargs EXCEPT !.given = {"turn_detection"}, !.turn_detection = td] :
         td \in TurnDetections}
    \cup {[NoKwargs EXCEPT !.given = {"voice"}, !.voice = "echo"],
          [NoKwargs EXCEPT !.given = {"tools", "voice"}, !.tools = AdHocTools,
                           !.voice = "echo"]}
CancelIds == {"a1"}
SubscribedTopics == {"conversation.updated"}
SampleCount == 48000

\* what the upstream peer sends to the controller
ServerEvents ==
    {ArgumentsEvent("a1", <<"{", "}">>), ArgumentsEvent("a1", <<"x">>)}
    \cup {ItemEvent("response.output_item.done", item) : item \in DoneItems("a1")}
    \cup {ItemEvent("response.output_item.done",
                    EventItem("a1", "message", "assistant", "completed", TRUE,
                              << Part("text", <<"h">>, Absent, Absent) >>,
                              "absent", "absent", Absent, Absent))}

\* calls and upstream messages of one behaviour
Budget == call.n + upstream.offered < MaxCalls

\* await client.connect() on a controller that was never connected: the
\* transport opens, the pump and the monitor start, the session is sent
AppConnects ==
    /\ Budget
    /\ upstream.state = "none"
    /\ \E m \in {[Machine EXCEPT !.upstream.state = "open",
                                 !.upstream.model = default_model,
                                 !.realtime.ws = "upstream",
                                 !.realtime.pump = "running",
                                 !.realtime.monitor = "running"]} :
           Commit(Ret(update_session(m, NoKwargs), "connect", <<>>))

\* client.on(topic, callback), as the gateway subscribes relay_wrapper
Subscribes ==
    /\ Budget
    /\ \E topic \in SubscribedTopics :
           \E m \in {[Machine EXCEPT !.client = on(@, topic, "relay_wrapper")]} :
               Commit(Ret(m, "on", <<topic>>))

AddTool ==
    /\ Budget
    /\ \E r \in Registrations : \E m \in {Machine} :
           Commit(Ret(add_tool(m, r[1], r[2]), "add_tool", <<r[1].name, r[2]>>))

RemoveTool ==
    /\ Budget
    /\ \E name \in ToolNamesUsed : \E m \in {Machine} :
           Commit(Ret(remove_tool(m, name), "remove_tool", <<name>>))

UpdateSession ==
    /\ Budget
    /\ \E kwargs \in SessionUpdates : \E m \in {Machine} :
           Commit(Ret(update_session(m, kwargs), "update_session", <<ToString(kwargs)>>))

AppendInputAudio ==
    /\ Budget
    /\ \E chunk \in AudioChunks : \E m \in {Machine} :
           Commit(Ret(append_input_audio(m, chunk), "append_input_audio", <<>>))

CreateResponse ==
    /\ Budget
    /\ \E m \in {Machine} : Commit(Ret(create_response(m), "create_response", <<>>))

CancelResponse ==
    /\ Budget
    /\ \E id \in CancelIds : \E m \in {Machine} :
           Commit(Ret(cancel_response(m, id, SampleCount), "cancel_response", <<id>>))

Disconnect ==
    /\ Budget
    /\ \E m \in {Machine} : Commit(Ret(RealtimeClient_disconnect(m), "disconnect", <<>>))

Reset ==
    /\ Budget
    /\ \E m \in {Machine} : Commit(Ret(reset(m), "reset", <<>>))

\* the upstream peer sends an event
ServerSends ==
    /\ Budget
    /\ upstream.state = "open"
    /\ \E event \in ServerEvents :
           upstream' = [upstream EXCEPT !.inbox = Append(@, json_dumps(event)),
                                        !.offered = @ + 1]
    /\ UNCHANGED <<conversation, last, nEvents, client, realtime, downstream, relay, tasks,
                   call, app>>

ControllerNext ==
    \/ AppConnects
    \/ Subscribes
    \/ AddTool
    \/ RemoveTool
    \/ UpdateSession
    \/ AppendInputAudio
    \/ CreateResponse
    \/ CancelResponse
    \/ Disconnect
    \/ Reset
    \/ ServerSends
    \/ PumpHandles
    \/ RunTask

ControllerSpec == Init /\ [][ControllerNext]_vars

-----------------------------------------------------------------------------
(* BusSpec: an application subscribes to the bus of a controller, waits for
   events on it and dispatches on it *)

BusTopics == {WatchedTopic, CompletedTopic}
BusItems == {"a1", "a2"}
Registering == {"register_on", "register_next"}

\* client.on(topic, callback)
SubscribesCallback ==
    /\ Budget
    /\ \E callback \in Registering :
           \E m \in {[Machine EXCEPT !.client = on(@, WatchedTopic, callback)]} :
               Commit(Ret(m, "on", <<WatchedTopic, callback>>))

\* client.on_next(topic, callback)
SubscribesNext ==
    /\ Budget
    /\ \E callback \in Registering :
           \E m \in {[Machine EXCEPT !.client = on_next(@, WatchedTopic, callback)]} :
               Commit(Ret(m, "on_next", <<WatchedTopic, callback>>))

\* client.off_next(topic)
OffNext ==
    /\ Budget
    /\ \E topic \in BusTopics : \E m \in {Machine} :
           Commit(Ret(off_next_all(m, topic), "off_next", <<topic>>))

\* client.clear_event_handlers()
Clears ==
    /\ Budget
    /\ \E m \in {[Machine EXCEPT !.client = clear_event_handlers(@)]} :
           Commit(Ret(m, "clear_event_handlers", <<>>))

\* client.dispatch(topic, {"item": item})
Dispatches ==
    /\ Budget
    /\ \E topic \in BusTopics : \E item \in BusItems :
           \E m \in {[Machine EXCEPT !.app.invoked = <<>>]} :
               Commit(Ret(RealtimeClient_dispatch(m, topic, [item |-> item]),
                          "dispatch", <<topic, item>>))

\* wait_for_next_item(), wait_for_next_completed_item(), and
\* wait_for_next(topic, timeout) with a timeout
WaitStarts ==
    /\ Budget
    /\ \E w \in Waiters : \E wait \in {<<WatchedTopic, FALSE>>, <<CompletedTopic, FALSE>>,
                                       <<WatchedTopic, TRUE>>} :
           /\ app.waits[w].pc = "idle"
           /\ \A v \in Waiters : v < w => app.waits[v].pc # "idle"
           /\ \E m \in {Machine} :
                  Commit(Ret(wait_for_next_begins(m, w, wait[1], wait[2]),
                             "wait_for_next_begins", <<ToString(w)>>))

\* the future has a result: the coroutine goes on
WaitResumes ==
    /\ \E w \in Waiters :
           /\ app.waits[w].pc = "waiting"
           /\ app.waits[w].done
           /\ \E m \in {Machine} :
                  Commit(Ret(wait_for_next_ends(m, w), "wait_for_next", <<ToString(w)>>))

\* the timeout elapses before the future has a result
WaitTimesOut ==
    /\ \E w \in Waiters :
           /\ app.waits[w].pc = "waiting"
           /\ app.waits[w].timeout
           /\ ~app.waits[w].done
           /\ \E m \in {Machine} :
                  Commit(Ret(wait_for_next_ends(m, w), "wait_for_next", <<ToString(w)>>))

BusNext ==
    \/ SubscribesCallback
    \/ SubscribesNext
    \/ OffNext
    \/ Clears
    \/ Dispatches
    \/ WaitStarts
    \/ WaitResumes
    \/ WaitTimesOut

BusSpec == Init /\ [][BusNext]_vars

-----------------------------------------------------------------------------
(* ConnectSpec: tasks of one application call connect() on one RealtimeAPI
   and send on it; none of them calls disconnect().
   ReconnectSpec: one task calls connect() and disconnect(), one call after
   the other, and the transports close; the pump and the monitor of every
   transport run *)

\* the data of a send: nothing, or an event that has an id or a type already,
\* as the events have that the gateway passes on from its downstream socket
SentData ==
    {[event_id |-> "absent", type |-> "absent"],
     [event_id |-> "evt_own", type |-> "absent"],
     [event_id |-> "absent", type |-> "response.cancel"]}

\* await realtime.connect(), up to the await of websockets.connect
ConnectStarts ==
    /\ \E c \in Callers :
           /\ app.connects[c] = "idle"
           /\ \E m \in {Machine} :
                  Commit(Ret(connect_begins(m, c), "connect_begins", <<ToString(c)>>))

\* websockets.connect returns the transport to the caller
ConnectReturns ==
    /\ \E c \in Callers :
           /\ app.connects[c] = "connecting"
           /\ \E m \in {Machine} :
                  Commit(Ret(connect_opens(m, c), "connect", <<ToString(c)>>))

\* websockets.connect raises in the caller
ConnectRaises ==
    /\ \E c \in Callers :
           /\ app.connects[c] = "connecting"
           /\ \E m \in {Machine} :
                  Commit(Ret(connect_fails(m, c), "connect", <<ToString(c)>>))

\* await realtime.connect() of a task that awaits every call it makes
ConnectStartsAlone ==
    /\ \A c \in Callers : app.connects[c] # "connecting"
    /\ ConnectStarts

\* realtime.on("close", on_close)
SubscribesClose ==
    /\ Budget
    /\ ~Subscribed(realtime, "close", "on_close")
    /\ \E m \in {[Machine EXCEPT !.realtime = on(@, "close", "on_close")]} :
           Commit(Ret(m, "on", <<"close">>))

\* realtime.disconnect()
ApiDisconnects ==
    /\ Budget
    /\ \E m \in {Machine} : Commit(Ret(RealtimeAPI_disconnect(m), "disconnect", <<>>))

\* the peer of an earlier transport closes it, or the transport breaks
EarlierCloses ==
    /\ \E k \in DOMAIN app.earlier :
           /\ app.earlier[k].state = "open"
           /\ app' = [app EXCEPT !.earlier[k].state = "closed"]
    /\ UNCHANGED <<conversation, last, nEvents, client, realtime, upstream, downstream,
                   relay, tasks, call>>

\* RealtimeAPI._handle_messages of an earlier transport, the transport is
\* closed: finally: self.disconnect(), which acts on the transport self.ws
\* refers to now
EarlierPumpEnds ==
    /\ \E k \in DOMAIN app.earlier :
           /\ app.earlier[k].pump = "running"
           /\ app.earlier[k].state = "closed"
           /\ \E m \in {[Machine EXCEPT !.app.earlier[k].pump = "ended"]} :
                  Commit(RealtimeAPI_disconnect(m))

\* RealtimeAPI._monitor_connection of an earlier transport wakes up from its
\* sleep: while self.is_connected(): await self.ws.ping(), on the transport
\* self.ws refers to now
EarlierMonitorWakes ==
    /\ \E k \in DOMAIN app.earlier :
           /\ app.earlier[k].monitor = "running"
           /\ \E m \in {Machine} :
                  Commit(IF RealtimeAPI_is_connected(m)
                         THEN [m EXCEPT !.app.earlier[k].strayed = TRUE]
                         ELSE [m EXCEPT !.app.earlier[k].monitor = "ended"])

\* realtime.send("response.create", data)
Sends ==
    /\ Budget
    /\ \E data \in SentData : \E m \in {Machine} :
           Commit(Ret(RealtimeAPI_send(m, "response.create", data), "send",
                      <<"response.create">>))

ConnectNext ==
    \/ ConnectStarts
    \/ ConnectReturns
    \/ ConnectRaises
    \/ Sends
    \/ RunTask

ConnectSpec == Init /\ [][ConnectNext]_vars

ReconnectNext ==
    \/ ConnectStartsAlone
    \/ ConnectReturns
    \/ ConnectRaises
    \/ SubscribesClose
    \/ ApiDisconnects
    \/ RunTask
    \/ UpstreamCloses
    \/ PumpEnds
    \/ MonitorPingFails
    \/ MonitorEnds
    \/ EarlierCloses
    \/ EarlierPumpEnds
    \/ EarlierMonitorWakes

ReconnectSpec == Init /\ [][ReconnectNext]_vars

-----------------------------------------------------------------------------
(* Properties of the conversation engine *)

\* this step handed an event of one of the types to process_event
Handled(types) == nEvents' = nEvents + 1 /\ last'.event.type \in types

\* the item an event finds under an id: the stored one, or the placeholder
\* that is synthesized for an id that is not indexed
Before(id) ==
    IF HasItem(conversation, id) THEN get_item(conversation, id) ELSE Placeholder(id)

Occurrences(seq, x) == Cardinality({i \in 1..Len(seq) : seq[i] = x})

ContentDeltas ==
    {"response.audio_transcript.delta", "response.audio.delta", "response.text.delta"}

\* the field of a content part, and of the formatted projection, that a
\* content-indexed delta of the type writes
RawField(part, type) ==
    CASE type = "response.text.delta" -> part.text
      [] type = "response.audio.delta" -> part.audio
      [] type = "response.audio_transcript.delta" -> part.transcript

FormattedField(item, type) ==
    CASE type = "response.text.delta" -> item.formatted.text
      [] type = "response.audio.delta" -> item.formatted.audio
      [] type = "response.audio_transcript.delta" -> item.formatted.transcript

\* a part with the field a delta of the type writes set to a value
WithRawField(part, type, value) ==
    CASE type = "response.text.delta" -> [part EXCEPT !.text = value]
      [] type = "response.audio.delta" -> [part EXCEPT !.audio = value]
      [] type = "response.audio_transcript.delta" -> [part EXCEPT !.transcript = value]

\* what a fragment adds to the formatted field: audio arrives as base64 text
Fragment(type, delta) ==
    IF type = "response.audio.delta" THEN base64_to_bytes(delta) ELSE delta

\* the raw field of slot k (counted from 1) before a delta, empty when the slot
\* or the field is not there yet
RawBefore(item, k, type) ==
    IF k <= Len(item.content) /\ RawField(item.content[k], type) # Absent
    THEN RawField(item.content[k], type)
    ELSE <<>>

\* the status and the formatted fields the creation event gives an item of its kind
Reconciled(stored, item) ==
    /\ stored.type = item.type
    /\ stored.role = item.role
    /\ stored.has_content = item.has_content
    /\ stored.content = item.content
    /\ item.has_content => stored.formatted.text = TextOfContent(item.content)
    /\ item.type = "message" /\ item.role = "user" => stored.status = "completed"
    /\ item.type = "message" /\ item.role = "assistant" => stored.status = "in_progress"
    /\ item.type = "function_call" =>
           /\ stored.status = "in_progress"
           /\ stored.formatted.tool = [arguments |-> <<>>,
                                       call_id |-> item.call_id,
                                       name |-> item.name,
                                       present |-> TRUE,
                                       type |-> "function"]
    /\ item.type = "function_call_output" =>
           /\ stored.status = "completed"
           /\ stored.formatted.output = item.output

\* C5: when the creation event of an item is processed for an id that holds a
\* placeholder (synthesized earlier by an event that named the unknown id), the
\* stored item afterwards carries the created item's type, role and content and
\* the status and formatted fields of its kind.
C5_PlaceholderReconciled ==
    [][(/\ Handled({"conversation.item.created"})
        /\ last'.exc = "none"
        /\ HasItem(conversation, last'.event.item.id)
        /\ get_item(conversation, last'.event.item.id).type = "absent")
       => /\ HasItem(conversation', last'.event.item.id)
          /\ Reconciled(get_item(conversation', last'.event.item.id), last'.event.item)]_vars

\* C6: with speech_started processed before the creation event of the item and
\* speech_stopped (with the input-audio snapshot) after it, no event fails and
\* the stored item's formatted audio ends as the slice of the snapshot between
\* the start and the end marker at 24,000 Hz: the creation that finds only the
\* start marker pending succeeds, and the speech_stopped that finds the item
\* stored and the start marker pending leaves the slice on the item.
C6_SpeechRaceConverges ==
    [][/\ (/\ Handled({"conversation.item.created"})
           /\ last'.event.item.id \in DOMAIN conversation.queued_speech_items
           /\ ~conversation.queued_speech_items[last'.event.item.id].has_end)
          => last'.exc = "none"
       /\ (/\ Handled({"input_audio_buffer.speech_stopped"})
           /\ Truthy(last'.args[1])
           /\ HasItem(conversation, last'.event.item_id)
           /\ last'.event.item_id \in DOMAIN conversation.queued_speech_items
           /\ ~conversation.queued_speech_items[last'.event.item_id].has_end)
          => /\ last'.exc = "none"
             /\ HasItem(conversation', last'.event.item_id)
             /\ get_item(conversation', last'.event.item_id).formatted.audio =
                    Slice(last'.args[1],
                          MsToIndex(conversation.queued_speech_items[
                                        last'.event.item_id].audio_start_ms),
                          MsToIndex(last'.event.audio_end_ms))]_vars

C8_ContentPadding ==
    [][(Handled(ContentDeltas) /\ Before(last'.event.item_id).has_content) =>
           LET e == last'.event
               k == e.content_index + 1
               old == Before(e.item_id).content
               n == Len(old)
               new == get_item(conversation', e.item_id).content
               slot == IF k <= n THEN old[k] ELSE EmptyPart
           IN  /\ Len(new) = Max(n, k)
               /\ \A i \in 1..n : i # k => new[i] = old[i]
               /\ \A i \in (n + 1)..(k - 1) : new[i] = EmptyPart
               /\ WithRawField(new[k], e.type, RawField(slot, e.type)) = slot]_vars

\* a delta for slot 1 has padded slot 0 of a list that another event began
C8_PaddedBelow ==
    /\ last.event.type \in ContentDeltas
    /\ last.event.content_index = 1
    /\ HasItem(conversation, last.event.item_id)
    /\ LET content == get_item(conversation, last.event.item_id).content
       IN  /\ Len(content) = 2
           /\ content[1] # EmptyPart
           /\ RawField(content[2], last.event.type) # Absent

\* C9: an item-created event for an id that is in the item store leaves the
\* ordered item list with exactly one entry for the id and the stored item's
\* formatted projection (audio, text, transcript, tool descriptor) as it was.
C9_ReplayKeepsItem ==
    [][(Handled({"conversation.item.created"})
        /\ HasItem(conversation, last'.event.item.id)) =>
           /\ Occurrences(conversation'.items, last'.event.item.id) = 1
           /\ HasItem(conversation', last'.event.item.id)
           /\ get_item(conversation', last'.event.item.id).formatted =
                  get_item(conversation, last'.event.item.id).formatted]_vars

\* the creation event of an assistant message was replayed after text had
\* streamed into the item
C9_ReplayedAfterText ==
    /\ last.event.type = "conversation.item.created"
    /\ last.exc = "none"
    /\ last.event.item.role = "assistant"
    /\ HasItem(conversation, last.event.item.id)
    /\ get_item(conversation, last.event.item.id).role = "assistant"
    /\ get_item(conversation, last.event.item.id).formatted.text # <<>>

\* C10: a pending speech segment is attached to at most one stored item, and
\* the creation that attaches it removes it from the pending map: a creation
\* that returns leaves no pending segment under the item's id and changes no
\* other stored item, and a pending segment goes away only through the
\* creation event of its own id.
C10_SegmentAttachedOnce ==
    [][/\ (Handled({"conversation.item.created"}) /\ last'.exc = "none") =>
              /\ last'.event.item.id \notin DOMAIN conversation'.queued_speech_items
              /\ \A id \in DOMAIN conversation.item_lookup :
                     id # last'.event.item.id =>
                         /\ HasItem(conversation', id)
                         /\ get_item(conversation', id) = get_item(conversation, id)
       /\ \A id \in DOMAIN conversation.queued_speech_items :
              id \notin DOMAIN conversation'.queued_speech_items =>
                  /\ Handled({"conversation.item.created"})
                  /\ last'.event.item.id = id
                  /\ last'.exc = "none"
                  /\ ~HasItem(conversation, id) =>
                         get_item(conversation', id).formatted.audio =
                             conversation.queued_speech_items[id].audio]_vars

\* the creation of a user message has taken the pending segment of its id
C10_SegmentAttached ==
    /\ last.event.type = "conversation.item.created"
    /\ last.exc = "none"
    /\ HasItem(conversation, last.event.item.id)
    /\ get_item(conversation, last.event.item.id).formatted.audio =
           Slice(Ramp(SnapshotLen), MsToIndex(1), MsToIndex(2))
    /\ get_item(conversation, last.event.item.id).formatted.audio # <<>>
    /\ last.event.item.id \notin DOMAIN conversation.queued_speech_items

C12_MalformedEventRejected ==
    [][(/\ nEvents' = nEvents + 1
        /\ \/ last'.event.event_id = "absent"
           \/ last'.event.type = "absent"
           \/ last'.event.type \notin event_processors)
       => /\ last'.exc = "ValueError"
          /\ conversation' = conversation]_vars

\* an event without an event id, of a type that has a processor, was rejected
\* by an engine that holds an item
C12_RejectedWithItems ==
    /\ last.event.event_id = "absent"
    /\ last.event.type \in event_processors
    /\ last.exc = "ValueError"
    /\ conversation.items # <<>>

\* the index and the ordered list hold the same ids, each id once in the
\* list, and every indexed value is indexed under its own id
SameIds(lookup, list) ==
    /\ \A id \in DOMAIN lookup : Occurrences(list, id) = 1 /\ lookup[id].id = id
    /\ \A i \in DOMAIN list : list[i] \in DOMAIN lookup

\* C33: in every reachable state of the engine the id index and the ordered
\* item list describe the same items, each indexed id once in the list and
\* every list entry indexed under its own id, also after a placeholder was made,
\* a creation event was replayed or the processing of an event failed; after
\* an item-deleted event the id is in neither; the response index and the
\* response list agree in the same way.
C33_IndexMatchesList ==
    /\ SameIds(conversation.item_lookup, conversation.items)
    /\ SameIds(conversation.response_lookup, conversation.responses)
    /\ (last.event.type = "conversation.item.deleted" /\ last.exc = "none")
       => /\ ~HasItem(conversation, last.event.item_id)
          /\ Occurrences(conversation.items, last.event.item_id) = 0

\* a stored item was deleted, and the engine holds another item
C33_DeletedBesideAnother ==
    /\ last.event.type = "conversation.item.deleted"
    /\ last.exc = "none"
    /\ last.item # NoItem
    /\ conversation.items # <<>>

-----------------------------------------------------------------------------
(* Properties of the controller *)

\* the step is a call of op, or a run of the task op
CallStep(op) == call'.n = call.n + 1 /\ call'.op = op

\* the envelopes the step hands to the upstream transport, in order: of the
\* tasks, the step leaves the first `waiting` in place and adds its own
Transmitted(waiting) ==
    LET added == SubSeq(tasks', waiting + 1, Len(tasks'))
        sends == SelectSeq(added, LAMBDA t : t.kind = "send" /\ t.socket = "upstream")
    IN  [i \in DOMAIN sends |-> json_loads(sends[i].value)]

\* a conversation.item.create envelope with a function_call_output item
IsToolOutput(envelope) ==
    /\ envelope.type = "conversation.item.create"
    /\ "item" \in DOMAIN envelope
    /\ envelope.item.type = "function_call_output"

\* C13: whenever the tool-call task runs for a descriptor and the named tool
\* is not registered, the arguments are not valid JSON or the handler raises,
\* the task sends exactly one conversation.item.create, its item is a
\* function_call_output with the call id of the descriptor and an output that
\* decodes to an object with an error field, and no exception leaves the task.
C13_ToolFailureReported ==
    [][CallStep("_call_tool") /\ ToolFailure(Machine, Head(tasks).value) # "none"
       => LET sent == Transmitted(Len(tasks) - 1)
              creates == {i \in DOMAIN sent : sent[i].type = "conversation.item.create"}
          IN  /\ call'.exc = "none"
              /\ Cardinality(creates) = 1
              /\ \A i \in creates :
                     /\ IsToolOutput(sent[i])
                     /\ sent[i].item.call_id = Head(tasks).value.call_id
                     /\ json_loads(sent[i].item.output).error # "absent"]_vars

\* C14: every run of the tool-call task, whether the handler succeeds or
\* fails, sends a response.create after the function_call_output envelope of
\* that run.
C14_ResponseFollowsToolRun ==
    [][CallStep("_call_tool")
       => LET sent == Transmitted(Len(tasks) - 1)
          IN  \E i, j \in DOMAIN sent :
                  /\ i < j
                  /\ IsToolOutput(sent[i])
                  /\ sent[j].type = "response.create"]_vars

\* the types of the envelopes, in order
TypesOf(sent) == [i \in DOMAIN sent |-> sent[i].type]

\* C15: create_response() on a connected controller always transmits a
\* response.create envelope, as the last one; when turn detection is unset and
\* the input-audio accumulator is not empty it transmits
\* input_audio_buffer.commit first, hands the accumulated bytes to the engine
\* and empties the accumulator, and then transmits response.create.
C15_CreateResponseTransmits ==
    [][CallStep("create_response") /\ RealtimeAPI_is_connected(Machine)
       => LET sent == Transmitted(Len(tasks))
          IN  /\ sent # <<>>
              /\ sent[Len(sent)].type = "response.create"
              /\ (/\ client.session_config.turn_detection \in {"none", "{}"}
                  /\ client.input_audio_buffer # <<>>)
                 => /\ TypesOf(sent) = <<"input_audio_buffer.commit", "response.create">>
                    /\ conversation'.queued_input_audio = client.input_audio_buffer
                    /\ client'.input_audio_buffer = <<>>]_vars

\* the item cancel_response(id) is called for is missing, is not a message, is
\* not an assistant message, or has no audio part
NotCancellable(c, id) ==
    \/ ~HasItem(c, id)
    \/ get_item(c, id).type # "message"
    \/ get_item(c, id).role # "assistant"
    \/ ~get_item(c, id).has_content
    \/ \A i \in DOMAIN get_item(c, id).content : get_item(c, id).content[i].type # "audio"

\* C16: cancel_response(id) for an id whose item does not exist, is not a
\* message, is not an assistant message or has no audio content part fails
\* with an error and transmits neither response.cancel nor
\* conversation.item.truncate.
C16_CancelRejectedSilently ==
    [][CallStep("cancel_response") /\ NotCancellable(conversation, call'.args[1])
       => /\ call'.exc # "none"
          /\ \A type \in {"response.cancel", "conversation.item.truncate"} :
                 \A i \in DOMAIN Transmitted(Len(tasks)) :
                     Transmitted(Len(tasks))[i].type # type]_vars

\* the registrations of a registry
RegistrationsOf(tools) == {tools[i] : i \in DOMAIN tools}

\* C17: tool names are unique in the registry. add_tool succeeds exactly when
\* the definition has a name, the handler is callable and no tool of that name
\* is registered, and it adds that one registration; a failed add_tool or
\* remove_tool leaves the registry as it was; a successful remove_tool takes
\* out the named tool only, and add_tool with the name of the tool just
\* removed succeeds again.
C17_ToolNamesUnique ==
    [][/\ CallStep("add_tool")
          => /\ call'.exc = "none"
                <=> /\ call'.args[1] # "absent"
                    /\ call'.args[2] # "not_callable"
                    /\ ~HasTool(client.tools, call'.args[1])
             /\ call'.exc # "none" => client'.tools = client.tools
             /\ call'.exc = "none"
                => /\ RegistrationsOf(client'.tools)
                          = RegistrationsOf(client.tools)
                                \cup {[definition |-> [name |-> call'.args[1]],
                                       handler |-> call'.args[2]]}
             /\ (/\ call.op = "remove_tool"
                 /\ call.exc = "none"
                 /\ call.args[1] = call'.args[1]
                 /\ call'.args[2] # "not_callable")
                => call'.exc = "none"
       /\ CallStep("remove_tool")
          => /\ call'.exc = "none" <=> HasTool(client.tools, call'.args[1])
             /\ call'.exc # "none" => client'.tools = client.tools
             /\ call'.exc = "none"
                => RegistrationsOf(client'.tools)
                       = {t \in RegistrationsOf(client.tools) :
                              t.definition.name # call'.args[1]}
       /\ \A i, j \in DOMAIN client'.tools :
              client'.tools[i].definition.name = client'.tools[j].definition.name
              => i = j]_vars

\* the tool that was registered and removed is registered again
C17_ReaddedAfterRemoval ==
    /\ call.op = "add_tool"
    /\ call.exc = "none"
    /\ call.prev.op = "remove_tool"
    /\ call.prev.exc = "none"
    /\ HasTool(client.tools, call.args[1])

\* C18: every successful change of the tool registry on a connected
\* controller, by add_tool and by remove_tool alike, transmits a session.update
\* envelope whose tool list is the definitions of the tools registered after
\* the change.
C18_RegistryChangeResyncs ==
    [][/\ CallStep("add_tool") \/ CallStep("remove_tool")
       /\ call'.exc = "none"
       /\ RealtimeAPI_is_connected(Machine)
       => \E i \in DOMAIN Transmitted(Len(tasks)) :
              /\ Transmitted(Len(tasks))[i].type = "session.update"
              /\ Transmitted(Len(tasks))[i].session.tools
                     = ToolDefinitions(client'.tools)]_vars

\* C19: after disconnect() the session-scoped state is back at its initial
\* value: the tool registry is empty, the session configuration is the
\* default one, the input-audio accumulator is empty, and the item store, the
\* response store and the pending maps are empty.
C19_DisconnectResetsSession ==
    [][CallStep("disconnect")
       => /\ client'.tools = <<>>
          /\ client'.session_config = default_session_config
          /\ client'.input_audio_buffer = <<>>
          /\ conversation' = ClearedConversation]_vars

\* C20: after reset(), from any state and however often reset() was called
\* before, the controller is as a newly constructed one: it is disconnected,
\* no subscription of the application is left on the controller or on its
\* RealtimeAPI, the tools, the configuration, the accumulator and the stores
\* have their initial values, and each handler of the controller for an
\* upstream topic is registered exactly once.
C20_ResetRestoresConstruction ==
    [][CallStep("reset")
       => /\ call'.exc = "none"
          /\ ~(realtime'.ws # "none" /\ upstream'.state = "open")
          /\ DOMAIN client'.event_handlers = {}
          /\ DOMAIN client'.next_event_handlers = {}
          /\ realtime'.event_handlers = _add_api_event_handlers
          /\ DOMAIN realtime'.next_event_handlers = {}
          /\ client'.tools = <<>>
          /\ client'.session_config = default_session_config
          /\ client'.input_audio_buffer = <<>>
          /\ client'.session_created = FALSE
          /\ conversation' = ClearedConversation]_vars

\* reset() on a controller that was connected and that the application has
\* just subscribed to
C20_ResetAfterSubscription ==
    /\ call.op = "reset"
    /\ call.prev.op = "on"
    /\ upstream.state # "none"

\* the fields of the session configuration
ConfigFields == {"instructions", "tools", "turn_detection", "voice"}

\* C21: update_session overwrites exactly the configuration fields the call
\* supplies and leaves every other field as it was; the session it transmits
\* has the new configuration with, as its tools, the definitions of the
\* registered tools and the ad hoc tools of this call; it transmits a
\* session.update envelope if and only if the controller is connected.
C21_UpdateSessionMerges ==
    [][\A kwargs \in SessionUpdates :
       CallStep("update_session") /\ call'.args[1] = ToString(kwargs)
       => LET sent == Transmitted(Len(tasks))
              adhoc == IF "tools" \in kwargs.given THEN kwargs.tools ELSE <<>>
          IN  /\ \A field \in ConfigFields :
                     client'.session_config[field]
                         = IF field \in kwargs.given THEN kwargs[field]
                           ELSE client.session_config[field]
              /\ ~RealtimeAPI_is_connected(Machine) => sent = <<>>
              /\ RealtimeAPI_is_connected(Machine)
                 => /\ TypesOf(sent) = <<"session.update">>
                    /\ Len(sent[1].session.tools) = Len(adhoc) + Len(client.tools)
                    /\ {sent[1].session.tools[i] : i \in DOMAIN sent[1].session.tools}
                           = {adhoc[i] : i \in DOMAIN adhoc}
                                 \cup {[name |-> t.definition.name, type |-> "function"] :
                                           t \in RegistrationsOf(client.tools)}
                    /\ \A field \in ConfigFields \ {"tools"} :
                           sent[1].session[field] = client'.session_config[field]]_vars

\* update_session with an ad hoc tool on a connected controller that has a
\* registered tool
C21_AdHocBesideRegistered ==
    /\ call.op = "update_session"
    /\ call.exc = "none"
    /\ \E kwargs \in SessionUpdates :
           "tools" \in kwargs.given /\ call.args[1] = ToString(kwargs)
    /\ client.tools # <<>>
    /\ realtime.ws # "none"
    /\ upstream.state = "open"

-----------------------------------------------------------------------------
(* Properties of the event bus *)

\* C22: a subscription, durable or for one dispatch, that a handler registers
\* on a topic while a dispatch on that topic is in progress is not invoked by
\* that dispatch: a callback that has no subscription to the topic when the
\* dispatch starts is not called by it.
C22_LateSubscriptionWaits ==
    [][/\ CallStep("dispatch")
       /\ call'.args[1] = WatchedTopic
       /\ ~Subscribed(client, WatchedTopic, "late")
       => \A i \in DOMAIN app'.invoked : app'.invoked[i] # "late"]_vars

\* the step in which the wait_for_next of w finishes
WaitEnds(w) ==
    /\ CallStep("wait_for_next")
    /\ call'.args[1] = ToString(w)

\* C23: if a dispatch on the awaited topic happens before the timeout
\* elapses, wait_for_next completes normally and yields the payload of that
\* dispatch, so that wait_for_next_item and wait_for_next_completed_item yield
\* the appended or completed item.
C23_WaitYieldsEvent ==
    [][\A w \in Waiters :
           WaitEnds(w) /\ app.waits[w].done
           => /\ call'.exc = "none"
              /\ app'.waits[w].pc = "returned"
              /\ app'.waits[w].result = app.waits[w].event]_vars

\* C24: whenever wait_for_next finishes, by event or by timeout, its one-shot
\* subscription is no longer registered on the bus, and on timeout it returns
\* the no-event result instead of raising.
C24_WaitDeregisters ==
    [][\A w \in Waiters :
           WaitEnds(w)
           => /\ \A topic \in BusTopics : ~Subscribed(client', topic, WaitCallback(w))
              /\ ~app.waits[w].done
                 => /\ call'.exc = "none"
                    /\ app'.waits[w].pc = "returned"
                    /\ app'.waits[w].result = NoEventYet]_vars

-----------------------------------------------------------------------------
(* Properties of the connection *)

\* C25: connect() on a RealtimeAPI that is connected fails with
\* ConnectionError and opens no transport; under any interleaving of connect()
\* calls with no disconnect() in between, at most one call opens a transport.
C25_ConnectOpensOnce ==
    [][/\ CallStep("connect_begins") /\ realtime.ws # "none" /\ upstream.state = "open"
          => /\ call'.exc = "ConnectionError"
             /\ app'.opened = app.opened
             /\ upstream' = upstream
       /\ CallStep("connect") /\ call'.exc = "none"
          => app'.opened <= 1]_vars

\* C26: every envelope that send(type, data) transmits carries the id generated
\* for that call as its event id and the given type as its type, whatever keys
\* data contains.
C26_EnvelopeStamped ==
    [][CallStep("send") /\ call'.exc = "none"
       => /\ Len(tasks') = Len(tasks) + 1
          /\ tasks'[Len(tasks')].kind = "send"
          /\ json_loads(tasks'[Len(tasks')].value).event_id = generate_id(realtime'.ids)
          /\ json_loads(tasks'[Len(tasks')].value).type = call'.args[1]]_vars

\* C27: the gateway opens the upstream session of a pairing for the model of
\* the downstream request, and for the default model only when the request
\* has no model parameter.
C27_RequestedModelOpened ==
    relay.pc = "loop"
    => upstream.model = IF relay.request = "absent" THEN default_model ELSE relay.request

\* C31: when a keepalive ping fails on a connected RealtimeAPI, the close
\* notification is published (a subscriber of "close" is invoked, once), the
\* connection is torn down (self.ws is None, so is_connected is false, and the
\* close of the transport is scheduled), and the monitor is over: it runs no
\* further round, on this transport or on a later one.
C31_PingFailureTearsDown ==
    [][/\ (realtime.monitor = "running" /\ realtime'.monitor = "failed")
          => /\ realtime'.ws = "none"
             /\ \E i \in DOMAIN tasks' :
                    /\ tasks'[i].kind = "close"
                    /\ tasks'[i].socket = "upstream"
             /\ Subscribed(realtime, "close", "on_close")
                => app'.invoked = Append(app.invoked, "on_close")
       /\ (realtime.monitor = "failed" /\ realtime'.monitor # "failed")
          => CallStep("connect") /\ call'.exc = "none"
       /\ \A k \in DOMAIN app.earlier :
              app.earlier[k].monitor = "failed"
              => /\ app'.earlier[k].monitor = "failed"
                 /\ app'.earlier[k].strayed = app.earlier[k].strayed]_vars

\* a ping has failed, the subscriber of "close" was invoked and a later
\* connect() has opened a transport
C31_TornDownAndReopened ==
    /\ \E k \in DOMAIN app.earlier : app.earlier[k].monitor = "failed"
    /\ \E i \in DOMAIN app.invoked : app.invoked[i] = "on_close"
    /\ realtime.ws = "upstream"
    /\ upstream.state = "open"

\* C34: the pump and the monitor started for one transport never act on a
\* transport that a later connect() has opened: when the pump of an earlier
\* transport ends, self.ws and the scheduled tasks are as they were, and the
\* monitor of an earlier transport never pings the transport self.ws refers to.
C34_EarlierTasksKeepOff ==
    [][\A k \in DOMAIN app.earlier :
           /\ (app.earlier[k].pump = "running" /\ app'.earlier[k].pump = "ended")
              => /\ realtime'.ws = realtime.ws
                 /\ Len(tasks') = Len(tasks)
           /\ ~app'.earlier[k].strayed]_vars

-----------------------------------------------------------------------------
(* Properties of the gateway *)

\* C1: every message the gateway has written to the downstream socket (all of
\* them originate upstream) has a type that is on the allow-list of the
\* gateway; an upstream event of any other type is never written downstream.
C1_OnlyAllowListedDownstream ==
    \A i \in 1..Len(downstream.received) :
        json_loads(downstream.received[i]).type \in event_whitelist

\* C2: once the upstream transport is no longer open for a reason that is not
\* the closure of the downstream socket (the upstream peer closed it, or a
\* keepalive ping failed), the downstream socket is eventually closed.
C2_UpstreamLossClosesDownstream ==
    (upstream.closed_by = "peer" \/ realtime.monitor = "failed")
        ~> (downstream.state = "closed")

\* C3: a closed downstream socket stays closed, and from some moment on it is
\* never closed without the controller being disconnected: the upstream
\* transport is not open (closed, or never opened because connecting failed)
\* and is_connected is false, for ever: the transport is not opened again.
C3_DownstreamLossDisconnects ==
    <>[](downstream.state = "closed" =>
             /\ upstream.state \in {"closed", "failed"}
             /\ ~RealtimeAPI_is_connected(Machine))

\* the gateway has closed an open upstream transport after the downstream peer
\* closed its socket, and the connection handler has returned
C3_ClosedAfterDownstream ==
    /\ downstream.closed_by = "peer"
    /\ upstream.closed_by = "gateway"
    /\ upstream.state = "closed"
    /\ relay.pc = "done"
    /\ ~RealtimeAPI_is_connected(Machine)

\* the pump takes the oldest message of the upstream transport, and it is an
\* event of one of the types
PumpReceives(types) ==
    /\ realtime.pump = "running"
    /\ upstream.inbox # <<>>
    /\ upstream'.inbox = Tail(upstream.inbox)
    /\ json_ok(Head(upstream.inbox))
    /\ json_loads(Head(upstream.inbox)).type \in types

\* C4: after a connected controller has received an upstream
\* conversation.item.created event for an id that is not stored, the item
\* store holds the item, once in the ordered list, with the status and the
\* formatted fields of its kind.
C4_UpstreamCreationStored ==
    [][(/\ PumpReceives({"conversation.item.created"})
        /\ RealtimeAPI_is_connected(Machine)
        /\ ~HasItem(conversation, json_loads(Head(upstream.inbox)).item.id))
       => LET item == json_loads(Head(upstream.inbox)).item
          IN  /\ HasItem(conversation', item.id)
              /\ Occurrences(conversation'.items, item.id) = 1
              /\ Reconciled(get_item(conversation', item.id), item)]_vars

\* the value was written to the downstream socket
Written(value) ==
    \E j \in DOMAIN downstream.received : json_loads(downstream.received[j]) = value

\* the envelopes of allow-listed types that the controller has sent: send
\* publishes each on client.*, and the controller publishes the raw-event
\* wrapper of each on realtime.event
AllowListedSent ==
    {e \in {json_loads(upstream.sent[i]) : i \in DOMAIN upstream.sent} :
        e.type \in event_whitelist}

\* C28: for every raw-event wrapper {time, source, event} the controller
\* publishes whose inner event type is allow-listed, the gateway eventually
\* writes that wrapper to the downstream socket, provided the downstream socket
\* stays open: here for the wrappers of the envelopes the controller has sent.
C28_WrappersRelayed ==
    (AllowListedSent # {})
        ~> \/ downstream.state # "open"
           \/ \A e \in AllowListedSent :
                  Written([event |-> e, source |-> "client", time |-> iso_timestamp])

\* the types of the upstream messages that decode to an object with a type
TypedUpstream == {e.type : e \in UpstreamEvents} \ {"absent"}

\* C29: for every upstream message that decodes to a JSON object with a type
\* field, the inbound pump publishes it on server.<type> and on server.* and
\* then mirrors it to the attached observer socket, before it handles the next
\* message: the step of the pump that takes the message writes it to the
\* downstream socket that is attached and open.
C29_PumpPublishesAndMirrors ==
    [][(/\ PumpReceives(TypedUpstream)
        /\ realtime.client_ws # "none"
        /\ downstream.state = "open")
       => downstream'.received = Append(downstream.received, Head(upstream.inbox))]_vars

\* the upstream message cannot be decoded, has no type, or its handling raises
BadUpstream(message) ==
    \/ ~json_ok(message)
    \/ json_loads(message).type = "absent"
    \/ RealtimeAPI_receive(Machine, json_loads(message).type, json_loads(message)).exc
           # "none"

\* the downstream message cannot be decoded, or event["type"] raises KeyError
BadDownstream(message) ==
    \/ ~json_ok(message)
    \/ json_loads(message).type = "absent"

\* the tasks that close a socket
Closing(ts) == {i \in DOMAIN ts : ts[i].kind = "close"}

\* C30: an inbound message on either socket that cannot be decoded, or whose
\* handling raises, is dropped without ending the inbound pump of that socket
\* and without closing the socket: after the step that takes it, the pump (the
\* read loop of the gateway) is where it was, ready for the next message, the
\* socket is in the state it was in, and no task was made that closes a socket.
C30_BadMessageDropped ==
    [][/\ (/\ realtime.pump = "running"
           /\ upstream.inbox # <<>>
           /\ upstream'.inbox = Tail(upstream.inbox)
           /\ BadUpstream(Head(upstream.inbox)))
          => /\ realtime'.pump = "running"
             /\ realtime'.ws = realtime.ws
             /\ upstream'.state = upstream.state
             /\ Closing(tasks') = Closing(tasks)
       /\ (/\ relay.pc = "loop"
           /\ downstream.inbox # <<>>
           /\ downstream'.inbox = Tail(downstream.inbox)
           /\ BadDownstream(Head(downstream.inbox)))
          => /\ relay'.pc = "loop"
             /\ downstream'.state = downstream.state
             /\ realtime'.ws = realtime.ws
             /\ Closing(tasks') = Closing(tasks)]_vars

\* both messages the upstream peer sent were taken by the pump, one of them
\* was dropped and the other mirrored, and the pump runs on an open transport
C30_DroppedAndWentOn ==
    /\ realtime.pump = "running"
    /\ upstream.state = "open"
    /\ upstream.offered = 2
    /\ upstream.inbox = <<>>
    /\ Len(downstream.received) = 1
    /\ downstream.state = "open"
    /\ relay.pc = "loop"

====
